---- MODULE Spec2Model ----
(***************************************************************************)
(* A model of the go-graph package: the graph store (vertices, edge list,  *)
(* adjacency lists, kind) and the traversal entry points WalkBFS,          *)
(* WalkPreOrderDFS, WalkPostOrderDFS, WalkUnreachableVertices,             *)
(* WalkDijkstra, WalkShortestPath and WalkTopoOrder, which share the       *)
(* per-vertex Color / DistanceFromSource / Parent fields and the WalkFunc  *)
(* protocol (nil, ErrStopWalking, any other error).                        *)
(*                                                                         *)
(* A vertex pointer is modelled by the vertex's key: the graph owns one    *)
(* Vertex per key and the operations modelled here never replace it.       *)
(***************************************************************************)
EXTENDS Integers, Sequences, FiniteSets, TLC

(***************************************************************************)
(* Bounds of the model.  Each specification builds graphs whose vertex     *)
(* values are 1..its number of keys, with at most its number of edges.     *)
(***************************************************************************)
\* Specification Spec.
NumKeys == 2
MaxEdges == 2
\* Specification SpecRefuse.
RefuseKeys == 2
RefuseMaxEdges == 1
\* Specification SpecBFS.
BFSKeys == 3
BFSMaxEdges == 2
\* Specification SpecUnreachable.
UnreachableKeys == 3
UnreachableMaxEdges == 1
\* Specification SpecClone.
CloneKeys == 2
CloneMaxEdges == 1

\* Specification SpecRerun.
RerunKeys == 2
RerunMaxEdges == 1

\* Specification SpecInsert.
InsertKeys == 3
InsertMaxEdges == 2

\* Specification SpecStore.
StoreKeys == 3
StoreMaxEdges == 3
\* Specification SpecTopo.
TopoKeys == 3
TopoMaxEdges == 3
\* Specification SpecPath.
PathKeys == 3
PathMaxEdges == 3
\* Specification SpecPathAny.
AnyKeys == 3
AnyMaxEdges == 1
\* Specification SpecUndo.
UndoKeys == 3
UndoMaxEdges == 2
\* Specification SpecLive.
LiveKeys == 2
LiveMaxEdges == 2
\* Specification SpecWalk.
WalkKeys == 3
WalkMaxEdges == 3

\* Edge weights that AddWeightedEdge is called with (non-negative).
Weights == {1, 3}

\* The edge weights AddWeightedEdge is called with in SpecStore, and in
\* SpecInsert.
StoreWeights == {2}
InsertWeights == {2, 6}

(***************************************************************************)
(* Values of the program.                                                  *)
(***************************************************************************)
\* A nil *Vertex (no key is 0).
Nil == 0
\* math.Inf(1); every finite distance of the model is far below it.
Inf == 1000000

White == "White"
Gray == "Gray"
Black == "Black"

KindUndirected == "KindUndirected"
KindDirected == "KindDirected"

\* Error values.  NoError is Go's nil error.  An error made with fmt.Errorf
\* is modelled by its message without the values formatted into it.
NoError == "nil"
ErrStopWalking == "walking stopped"
ErrCycleDetected == "cycle detected"
ErrIsNotDirectedGraph == "graph is not directed"
ErrSourceNotFound == "Source vertex not found in the graph"
ErrDestNotFound == "Destination vertex not found in the graph"
ErrNoEdge == "No edge exists"
ErrNoPath == "No path exists"
\* The attribute names and values a caller writes into a DotAttributes map.
AttributeNames == {"label"}
AttributeValues == {"v1"}

\* Errors a caller's WalkFunc may return besides ErrStopWalking.
VisitorErrors == {"my custom error"}
\* What a caller's WalkFunc may return.
WalkFuncResults == {NoError, ErrStopWalking} \cup VisitorErrors

\* float64 addition and comparison, with +Inf.
DistAdd(a, b) == IF a = Inf \/ b = Inf THEN Inf ELSE a + b
DistLess(a, b) == a # Inf /\ (b = Inf \/ a < b)

(***************************************************************************)
(* The graph store.  A graph is a record of the fields of UndirectedGraph; *)
(* DirectedGraph embeds it and overrides AddEdge, EdgeExists, GetEdge and  *)
(* DeleteEdge.                                                             *)
(***************************************************************************)
\* make(DotAttributes): the empty map of attribute names to values.
NoAttributes == [n \in {} |-> ""]

NewVertex(value) ==
    [Value |-> value, Color |-> White, DistanceFromSource |-> 0,
     Parent |-> Nil, DotAttributes |-> NoAttributes, In |-> 0, Out |-> 0]

NewEdge(from, to) ==
    [From |-> from, To |-> to, Weight |-> 0, DotAttributes |-> NoAttributes]

New(kind) ==
    [kind |-> kind,
     vertices |-> [k \in {} |-> NewVertex(k)],
     edges |-> <<>>,
     adjacencyLists |-> [k \in {} |-> <<>>]]

Kind(gr) == gr.kind

ResetVertexAttributes(gr) ==
    [gr EXCEPT !.vertices =
        [k \in DOMAIN gr.vertices |->
            [gr.vertices[k] EXCEPT !.Color = White,
                                   !.DistanceFromSource = 0,
                                   !.Parent = Nil]]]

GetVertex(gr, value) == gr.vertices[value]

VertexExists(gr, value) == value \in DOMAIN gr.vertices

\* The keys of the vertex map; GetVertices ranges over the map, in an order
\* Go leaves unspecified.
GetVertexValues(gr) == DOMAIN gr.vertices

GetEdges(gr) == gr.edges

\* g.adjacencyLists[v]: nil, a list of no keys, for a key the map lacks.
GetNeighbours(gr, v) ==
    IF v \in DOMAIN gr.adjacencyLists THEN gr.adjacencyLists[v] ELSE <<>>

\* g.adjacencyLists[v] = append(g.adjacencyLists[v], u)
AppendNeighbour(gr, v, u) ==
    [gr EXCEPT !.adjacencyLists =
        [k \in DOMAIN gr.adjacencyLists \cup {v} |->
            IF k = v THEN Append(GetNeighbours(gr, v), u) ELSE gr.adjacencyLists[k]]]

\* AddVertex without the test for an existing vertex.
AddVertexOverwrite(gr, value) ==
    [gr EXCEPT !.vertices = (value :> NewVertex(value)) @@ gr.vertices]

AddVertex(gr, value) ==
    IF VertexExists(gr, value)
    THEN gr
    ELSE [gr EXCEPT !.vertices = gr.vertices @@ (value :> NewVertex(value))]

\* The loop condition of UndirectedGraph.GetEdge without its second half.
UndirectedMatchOneWay(e, from, to) == e.From = from /\ e.To = to

\* The loop condition of UndirectedGraph.GetEdge.
UndirectedMatch(e, from, to) ==
    \/ e.From = from /\ e.To = to
    \/ e.From = to /\ e.To = from

\* The loop condition of DirectedGraph.GetEdge.
DirectedMatch(e, from, to) == e.From = from /\ e.To = to

\* The first of the given indices of the edge list, 0 if there is none
\* (GetEdge returns the first edge its loop matches, or nil).
FirstMatch(hits) ==
    IF hits = {} THEN 0 ELSE CHOOSE i \in hits : \A j \in hits : i <= j

UndirectedGetEdge(gr, from, to) ==
    FirstMatch({i \in 1..Len(gr.edges) : UndirectedMatch(gr.edges[i], from, to)})

DirectedGetEdge(gr, from, to) ==
    FirstMatch({i \in 1..Len(gr.edges) : DirectedMatch(gr.edges[i], from, to)})

UndirectedEdgeExists(gr, from, to) == UndirectedGetEdge(gr, from, to) # 0

DirectedEdgeExists(gr, from, to) == DirectedGetEdge(gr, from, to) # 0

\* Graph[T].GetEdge / EdgeExists as called through the interface: the
\* method of the graph's dynamic type.
GetEdge(gr, from, to) ==
    IF gr.kind = KindDirected
    THEN DirectedGetEdge(gr, from, to)
    ELSE UndirectedGetEdge(gr, from, to)

EdgeExists(gr, from, to) == GetEdge(gr, from, to) # 0

BumpDegree(gr, v, din, dout) ==
    [gr EXCEPT !.vertices[v].In = @ + din, !.vertices[v].Out = @ + dout]

UndirectedAddEdge(gr, from, to) ==
    IF UndirectedEdgeExists(gr, from, to)
    THEN gr
    ELSE LET g1 == AddVertex(AddVertex(gr, from), to)
             g2 == [g1 EXCEPT !.edges = Append(@, NewEdge(from, to))]
             g3 == AppendNeighbour(g2, from, to)
             g4 == AppendNeighbour(g3, to, from)
         IN BumpDegree(BumpDegree(g4, from, 1, 1), to, 1, 1)

DirectedAddEdge(gr, from, to) ==
    IF DirectedEdgeExists(gr, from, to)
    THEN gr
    ELSE LET g1 == AddVertex(AddVertex(gr, from), to)
             g2 == [g1 EXCEPT !.edges = Append(@, NewEdge(from, to))]
             g3 == AppendNeighbour(g2, from, to)
         IN BumpDegree(BumpDegree(g3, from, 0, 1), to, 1, 0)

\* AddEdge that gives the edge it finds the weight of a new one.
AddEdgeWeightReset(gr, from, to) ==
    LET i == GetEdge(gr, from, to)
    IN IF i # 0
       THEN [gr EXCEPT !.edges[i].Weight = 0]
       ELSE IF gr.kind = KindDirected
            THEN DirectedAddEdge(gr, from, to)
            ELSE UndirectedAddEdge(gr, from, to)

\* Graph[T].AddEdge as called through the interface.
AddEdge(gr, from, to) ==
    IF gr.kind = KindDirected
    THEN DirectedAddEdge(gr, from, to)
    ELSE UndirectedAddEdge(gr, from, to)

\* AddWeightedEdge is a method of UndirectedGraph only, promoted to
\* DirectedGraph: its g.AddEdge and the edge it gets back are those of
\* UndirectedGraph whatever the kind of the graph.
AddWeightedEdge(gr, from, to, weight) ==
    LET g1 == UndirectedAddEdge(gr, from, to)
        i == UndirectedGetEdge(g1, from, to)
    IN [g1 EXCEPT !.edges[i].Weight = weight]

(***************************************************************************)
(* Deleting.  DeleteEdge ranges over a slice and deletes from that same    *)
(* slice in the loop: the range was given the slice as it was when the     *)
(* loop began (its length then, and its backing array), slices.Delete      *)
(* (Go 1.21) moves the elements after the deleted one down one place in    *)
(* that backing array and leaves what lay in the last place where it is,   *)
(* and panics when asked to delete at or past the length the slice has     *)
(* by then.  A result is the graph, with panic TRUE when the call          *)
(* panicked, the graph being as the panic left it.                         *)
(***************************************************************************)
\* The backing array after slices.Delete(s, idx, idx+1) on its first len
\* elements (idx counted from 1, idx <= len).
ShiftDown(arr, idx, len) ==
    [i \in 1..Len(arr) |-> IF i >= idx /\ i < len THEN arr[i + 1] ELSE arr[i]]

\* The condition of the loop over g.edges: that of UndirectedGraph.DeleteEdge
\* or that of DirectedGraph.DeleteEdge.
EdgeMatch(e, from, to, directed) ==
    IF directed THEN DirectedMatch(e, from, to) ELSE UndirectedMatch(e, from, to)

\* for idx, e := range g.edges { if match { g.edges = slices.Delete(g.edges, idx, idx+1) } }
\* from place idx on; n is the length the slice had when the loop began, len
\* the length it has now, arr its backing array.
RECURSIVE RangeDeleteEdges(_, _, _, _, _, _, _)
RangeDeleteEdges(arr, len, n, idx, from, to, directed) ==
    IF idx > n
    THEN [arr |-> arr, len |-> len, panic |-> FALSE]
    ELSE IF EdgeMatch(arr[idx], from, to, directed)
         THEN IF idx > len
              THEN [arr |-> arr, len |-> len, panic |-> TRUE]
              ELSE RangeDeleteEdges(ShiftDown(arr, idx, len), len - 1, n, idx + 1,
                                    from, to, directed)
         ELSE RangeDeleteEdges(arr, len, n, idx + 1, from, to, directed)

\* for idx, v := range g.adjacencyLists[x] { if v == u { ... slices.Delete ... } }
RECURSIVE RangeDeleteNeighbour(_, _, _, _, _)
RangeDeleteNeighbour(arr, len, n, idx, u) ==
    IF idx > n
    THEN [arr |-> arr, len |-> len, panic |-> FALSE]
    ELSE IF arr[idx] = u
         THEN IF idx > len
              THEN [arr |-> arr, len |-> len, panic |-> TRUE]
              ELSE RangeDeleteNeighbour(ShiftDown(arr, idx, len), len - 1, n, idx + 1, u)
         ELSE RangeDeleteNeighbour(arr, len, n, idx + 1, u)

\* The loop that takes u out of the adjacency list of x.
DeleteNeighbour(gr, x, u) ==
    LET ns == GetNeighbours(gr, x)
        r == RangeDeleteNeighbour(ns, Len(ns), Len(ns), 1, u)
    IN [g |-> IF x \in DOMAIN gr.adjacencyLists
              THEN [gr EXCEPT !.adjacencyLists[x] = SubSeq(r.arr, 1, r.len)]
              ELSE gr,
        panic |-> r.panic]

\* The update of the degree with Degree.In left as it is.
DropDegreeOutOnly(gr, x, din, dout) ==
    IF VertexExists(gr, x)
    THEN [g |-> BumpDegree(gr, x, 0, 0 - dout), panic |-> FALSE]
    ELSE [g |-> gr, panic |-> TRUE]

\* fromV := g.GetVertex(x); fromV.Degree.In -= din; fromV.Degree.Out -= dout:
\* GetVertex returns nil for a value that is no key of the vertex map, and
\* the write through nil panics.
DropDegree(gr, x, din, dout) ==
    IF VertexExists(gr, x)
    THEN [g |-> BumpDegree(gr, x, 0 - din, 0 - dout), panic |-> FALSE]
    ELSE [g |-> gr, panic |-> TRUE]

\* UndirectedGraph.DeleteEdge on a graph whose edge slice has the backing
\* array arr; the result holds the backing array as the call left it.
UndirectedDeleteEdgeOn(gr, arr, from, to) ==
    IF ~UndirectedEdgeExists(gr, from, to)
    THEN [g |-> gr, arr |-> arr, panic |-> FALSE]
    ELSE LET r1 == RangeDeleteEdges(arr, Len(gr.edges), Len(gr.edges), 1, from, to, FALSE)
             g1 == [gr EXCEPT !.edges = SubSeq(r1.arr, 1, r1.len)]
             r2 == DeleteNeighbour(g1, from, to)
             r3 == DeleteNeighbour(r2.g, to, from)
             r4 == DropDegree(r3.g, from, 1, 1)
             r5 == DropDegree(r4.g, to, 1, 1)
         IN IF r1.panic THEN [g |-> g1, arr |-> r1.arr, panic |-> TRUE]
            ELSE IF r2.panic THEN [g |-> r2.g, arr |-> r1.arr, panic |-> TRUE]
            ELSE IF r3.panic THEN [g |-> r3.g, arr |-> r1.arr, panic |-> TRUE]
            ELSE IF r4.panic THEN [g |-> r4.g, arr |-> r1.arr, panic |-> TRUE]
            ELSE [g |-> r5.g, arr |-> r1.arr, panic |-> r5.panic]

UndirectedDeleteEdge(gr, from, to) ==
    LET r == UndirectedDeleteEdgeOn(gr, gr.edges, from, to)
    IN [g |-> r.g, panic |-> r.panic]

\* DirectedGraph.DeleteEdge looking for the edge in either direction.
DirectedDeleteEdgeEitherWay(gr, from, to) == UndirectedDeleteEdge(gr, from, to)

DirectedDeleteEdge(gr, from, to) ==
    IF ~DirectedEdgeExists(gr, from, to)
    THEN [g |-> gr, panic |-> FALSE]
    ELSE LET r1 == RangeDeleteEdges(gr.edges, Len(gr.edges), Len(gr.edges), 1, from, to, TRUE)
             g1 == [gr EXCEPT !.edges = SubSeq(r1.arr, 1, r1.len)]
             r2 == DeleteNeighbour(g1, from, to)
             r3 == DropDegree(r2.g, from, 0, 1)
             r4 == DropDegree(r3.g, to, 1, 0)
         IN IF r1.panic THEN [g |-> g1, panic |-> TRUE]
            ELSE IF r2.panic THEN [g |-> r2.g, panic |-> TRUE]
            ELSE IF r3.panic THEN [g |-> r3.g, panic |-> TRUE]
            ELSE [g |-> r4.g, panic |-> r4.panic]

\* Graph[T].DeleteEdge as called through the interface.
DeleteEdge(gr, from, to) ==
    IF gr.kind = KindDirected
    THEN DirectedDeleteEdge(gr, from, to)
    ELSE UndirectedDeleteEdge(gr, from, to)

\* The loop of DeleteVertex over g.GetEdges(), from place idx on: the slice
\* it ranges over is g.edges as it was when the loop began, and the calls of
\* DeleteEdge in the loop move the elements of its backing array.  DeleteVertex
\* is a method of UndirectedGraph only, promoted to DirectedGraph: its
\* g.DeleteEdge is that of UndirectedGraph whatever the kind of the graph.
RECURSIVE DeleteVertexEdges(_, _, _, _, _)
DeleteVertexEdges(gr, arr, n, idx, v) ==
    IF idx > n
    THEN [g |-> gr, panic |-> FALSE]
    ELSE LET e == arr[idx]
         IN IF e.From = v \/ e.To = v
            THEN LET r == UndirectedDeleteEdgeOn(gr, arr, e.From, e.To)
                 IN IF r.panic
                    THEN [g |-> r.g, panic |-> TRUE]
                    ELSE DeleteVertexEdges(r.g, r.arr, n, idx + 1, v)
            ELSE DeleteVertexEdges(gr, arr, n, idx + 1, v)

\* delete(g.vertices, v)
RemoveVertex(gr, v) ==
    [gr EXCEPT !.vertices = [k \in DOMAIN gr.vertices \ {v} |-> gr.vertices[k]]]

DeleteVertex(gr, v) ==
    IF ~VertexExists(gr, v)
    THEN [g |-> gr, panic |-> FALSE]
    ELSE LET r == DeleteVertexEdges(gr, gr.edges, Len(gr.edges), 1, v)
         IN IF r.panic THEN r ELSE [g |-> RemoveVertex(r.g, v), panic |-> FALSE]


(***************************************************************************)
(* Clone.  The parent of a vertex is a pointer to a Vertex; the record of   *)
(* a vertex keeps the Value of the vertex it points to, Nil for nil.       *)
(***************************************************************************)
\* dotAttributes := make(DotAttributes); for dotK, dotV := range ... { dotAttributes[dotK] = dotV }
CopyAttributes(bag) == [n \in DOMAIN bag |-> bag[n]]

\* The first loop over g.vertices: a new vertex for every key, Parent nil.
CloneVertices(gr) ==
    [k \in DOMAIN gr.vertices |->
        [Value |-> gr.vertices[k].Value,
         Color |-> gr.vertices[k].Color,
         DistanceFromSource |-> gr.vertices[k].DistanceFromSource,
         Parent |-> Nil,
         DotAttributes |-> CopyAttributes(gr.vertices[k].DotAttributes),
         In |-> gr.vertices[k].In,
         Out |-> gr.vertices[k].Out]]

\* Clone without its second loop: every parent stays nil.
PopulateParentsSkipped(gr, newVertices) == newVertices

\* The second loop: newVertices[k].Parent = newVertices[v.Parent.Value] for
\* every v with a parent; the map yields nil for a Value that is no key.
PopulateParents(gr, newVertices) ==
    [k \in DOMAIN newVertices |->
        IF gr.vertices[k].Parent = Nil
        THEN newVertices[k]
        ELSE [newVertices[k] EXCEPT
                !.Parent = IF gr.vertices[k].Parent \in DOMAIN newVertices
                           THEN gr.vertices[k].Parent
                           ELSE Nil]]

CloneEdges(gr) ==
    [i \in 1..Len(gr.edges) |->
        [From |-> gr.edges[i].From,
         To |-> gr.edges[i].To,
         Weight |-> gr.edges[i].Weight,
         DotAttributes |-> CopyAttributes(gr.edges[i].DotAttributes)]]

CloneAdjacencyLists(gr) ==
    [k \in DOMAIN gr.adjacencyLists |->
        [i \in 1..Len(gr.adjacencyLists[k]) |-> gr.adjacencyLists[k][i]]]

Clone(gr) ==
    [kind |-> gr.kind,
     vertices |-> PopulateParents(gr, CloneVertices(gr)),
     edges |-> CloneEdges(gr),
     adjacencyLists |-> CloneAdjacencyLists(gr)]

\* A clone that takes the attribute maps of the original as they are
\* (DotAttributes: v.DotAttributes) holds them in common with it.
CloneSharesAttributes(gr) ==
    {<<"Vertex", k>> : k \in DOMAIN gr.vertices}
        \cup {<<"Edge", gr.edges[i].From, gr.edges[i].To>> : i \in 1..Len(gr.edges)}

\* The attribute maps Clone(gr) holds in common with gr: every map of the
\* clone is made anew, so none.
CloneShares(gr) == {}

(***************************************************************************)
(* The state: the graph, and the one traversal call in progress with its   *)
(* locals.                                                                 *)
(***************************************************************************)
VARIABLES
    g,        \* the graph the calls act on
    pc,       \* "idle" (no call made yet), "done" (the last call returned) or
              \* the place the running call is at
    op,       \* the entry point called last
    source,   \* its source argument (Nil for WalkTopoOrder)
    dest,     \* the dest argument of WalkShortestPath (Nil otherwise)
    queue,    \* the deque local of WalkBFS, WalkPreOrderDFS, WalkPostOrderDFS
              \* and dfsPostOrder, front first
    pq,       \* the priority queue local of WalkDijkstra: item -> priority
    rest,     \* the vertices a range over g.GetVertices() has yet to yield
    result,   \* the result local of WalkShortestPath and of dfsPostOrder
    cur,      \* the vertex the call is at: the one handed to walkFunc, or v
              \* of the parent-chain loop of WalkShortestPath
    visited,  \* the vertices the caller's walkFunc was invoked on, in order
    walkErr,  \* what the caller's walkFunc returned last
    ret,      \* what the last call returned
    h,        \* the other graph of the caller: NoGraph until Clone returns one
    shared,   \* the objects that g and h both hold
    before    \* color, distance and parent of every vertex as the traversal
              \* called last found them

vars == <<g, pc, op, source, dest, queue, pq, rest, result, cur, visited, walkErr, ret,
          h, shared, before>>

NoItems == [k \in {} |-> 0]

\* No graph: the caller holds no second graph yet.
NoGraph == New("none")

\* Color, DistanceFromSource and Parent of every vertex.
Attrs(gr) ==
    [k \in DOMAIN gr.vertices |->
        <<gr.vertices[k].Color, gr.vertices[k].DistanceFromSource, gr.vertices[k].Parent>>]

\* The attribute bag a tag of shared names, in gr: the bag of the vertex
\* stored under k for <<"Vertex", k>>, that of the first edge from u to v for
\* <<"Edge", u, v>>.
EdgePlace(gr, u, v) == {i \in 1..Len(gr.edges) : gr.edges[i].From = u /\ gr.edges[i].To = v}

Holds(gr, tag) ==
    IF tag[1] = "Vertex"
    THEN tag[2] \in DOMAIN gr.vertices
    ELSE EdgePlace(gr, tag[2], tag[3]) # {}

\* A map both graphs hold is one object: what a call writes into it through
\* one graph is read through the other.  Through(gn, other, sh) is the other
\* graph as seen once the call has left gn.
Through(gn, other, sh) ==
    [other EXCEPT
        !.vertices = [k \in DOMAIN other.vertices |->
            IF <<"Vertex", k>> \in sh /\ k \in DOMAIN gn.vertices
            THEN [other.vertices[k] EXCEPT !.DotAttributes = gn.vertices[k].DotAttributes]
            ELSE other.vertices[k]],
        !.edges = [i \in 1..Len(other.edges) |->
            LET e == other.edges[i]
                at == EdgePlace(gn, e.From, e.To)
            IN IF <<"Edge", e.From, e.To>> \in sh /\ at # {}
               THEN [e EXCEPT !.DotAttributes = gn.edges[CHOOSE j \in at : TRUE].DotAttributes]
               ELSE e]]

\* The effect of a call on what is not its receiver: the other graph sees
\* the writes into the objects it shares, and an object that left one of the
\* graphs is shared no longer.
Reflect ==
    /\ h' = Through(g', h, shared)
    /\ shared' = {tag \in shared : Holds(g', tag) /\ Holds(h', tag)}

\* No call made yet, on one of the given graphs.
InitFrom(graphs) ==
    /\ g \in graphs
    /\ pc = "idle"
    /\ op = "none"
    /\ source = Nil
    /\ dest = Nil
    /\ queue = <<>>
    /\ pq = NoItems
    /\ rest = {}
    /\ result = <<>>
    /\ cur = Nil
    /\ visited = <<>>
    /\ walkErr = NoError
    /\ ret = NoError
    /\ h = NoGraph
    /\ shared = {}
    /\ before = NoItems

\* The state after New(kind), of either kind.
Init == InitFrom({New(KindUndirected), New(KindDirected)})

(***************************************************************************)
(* Building the graph, before the traversal.                               *)
(***************************************************************************)
Frame ==
    UNCHANGED <<pc, op, source, dest, queue, pq, rest, result, cur, visited, walkErr, ret,
                before>>

\* The code never orders vertex values, it only compares them for equality,
\* so every graph is, up to a renaming of its values, one whose values were
\* introduced in increasing order: the calls that build the graph are
\* enumerated up to that renaming.
InOrder(u, v) ==
    LET n == Cardinality(DOMAIN g.vertices)
        newU == ~VertexExists(g, u)
        newV == ~VertexExists(g, v) /\ v # u
    IN /\ newU => u = n + 1
       /\ newV => v = n + 1 + (IF newU THEN 1 ELSE 0)

DoAddVertex(k) ==
    /\ pc = "idle"
    /\ InOrder(k, k)
    /\ g' = AddVertex(g, k)
    /\ Frame
    /\ Reflect

DoAddEdge(maxEdges, u, v) ==
    /\ pc = "idle"
    /\ InOrder(u, v)
    /\ g' = AddEdge(g, u, v)
    /\ Len(g'.edges) <= maxEdges
    /\ Frame
    /\ Reflect

DoAddWeightedEdge(maxEdges, u, v, w) ==
    /\ pc = "idle"
    /\ InOrder(u, v)
    /\ g' = AddWeightedEdge(g, u, v, w)
    /\ Len(g'.edges) <= maxEdges
    /\ Frame
    /\ Reflect

(***************************************************************************)
(* The operations of the store as calls that leave a record of themselves: *)
(* op is the operation called last, source and dest its arguments (the     *)
(* value for AddVertex and DeleteVertex, from and to for the others).      *)
(***************************************************************************)
Called(o, a, b) ==
    /\ op' = o
    /\ source' = a
    /\ dest' = b
    /\ UNCHANGED <<queue, pq, rest, result, cur, visited, walkErr, ret, before>>

CallAddVertex(k) ==
    /\ pc = "idle"
    /\ InOrder(k, k)
    /\ Called("AddVertex", k, Nil)
    /\ g' = AddVertex(g, k)
    /\ pc' = "idle"
    /\ Reflect

CallAddEdge(maxEdges, u, v) ==
    /\ pc = "idle"
    /\ InOrder(u, v)
    /\ Called("AddEdge", u, v)
    /\ g' = AddEdge(g, u, v)
    /\ Len(g'.edges) <= maxEdges
    /\ pc' = "idle"
    /\ Reflect

CallAddWeightedEdge(maxEdges, u, v, w) ==
    /\ pc = "idle"
    /\ InOrder(u, v)
    /\ Called("AddWeightedEdge", u, v)
    /\ g' = AddWeightedEdge(g, u, v, w)
    /\ Len(g'.edges) <= maxEdges
    /\ pc' = "idle"
    /\ Reflect

\* The calls that delete are made on the graph as built and after one
\* another; a call that panics is the last one.
CallDeleteEdge(u, v) ==
    /\ pc \in {"idle", "done"}
    /\ Called("DeleteEdge", u, v)
    /\ g' = DeleteEdge(g, u, v).g
    /\ pc' = IF DeleteEdge(g, u, v).panic THEN "panic" ELSE "done"
    /\ Reflect

CallDeleteVertex(v) ==
    /\ pc \in {"idle", "done"}
    /\ Called("DeleteVertex", v, Nil)
    /\ g' = DeleteVertex(g, v).g
    /\ pc' = IF DeleteVertex(g, v).panic THEN "panic" ELSE "done"
    /\ Reflect

(***************************************************************************)
(* What the caller does with two graphs.                                   *)
(***************************************************************************)
\* g2 := g1.Clone()
DoClone ==
    /\ pc \in {"idle", "done"}
    /\ h = NoGraph
    /\ h' = Clone(g)
    /\ shared' = CloneShares(g)
    /\ g' = g
    /\ Frame

\* The caller goes on with the other graph.
Turn ==
    /\ pc \in {"idle", "done"}
    /\ h # NoGraph
    /\ g' = h
    /\ h' = g
    /\ shared' = shared
    /\ Frame

\* bag[n] = val
Put(bag, n, val) == [m \in DOMAIN bag \cup {n} |-> IF m = n THEN val ELSE bag[m]]

\* g.GetVertex(k).DotAttributes[n] = val
SetVertexAttribute(k, n, val) ==
    /\ pc \in {"idle", "done"}
    /\ VertexExists(g, k)
    /\ g' = [g EXCEPT !.vertices[k].DotAttributes = Put(@, n, val)]
    /\ Frame
    /\ Reflect

\* g.GetEdge(u, v).DotAttributes[n] = val
SetEdgeAttribute(u, v, n, val) ==
    /\ pc \in {"idle", "done"}
    /\ EdgeExists(g, u, v)
    /\ g' = [g EXCEPT !.edges[GetEdge(g, u, v)].DotAttributes = Put(@, n, val)]
    /\ Frame
    /\ Reflect

(***************************************************************************)
(* Pieces shared by the entry points.                                      *)
(***************************************************************************)
\* An entry point is called when no call is running.
Enter(o, s, d) ==
    /\ pc \in {"idle", "done"}
    /\ op' = o
    /\ source' = s
    /\ dest' = d
    /\ visited' = <<>>
    /\ walkErr' = NoError
    /\ before' = Attrs(g)

ClearLocals ==
    /\ queue' = <<>>
    /\ pq' = NoItems
    /\ rest' = {}
    /\ result' = <<>>
    /\ cur' = Nil

\* return e
Return(e) ==
    /\ pc' = "done"
    /\ ret' = e
    /\ ClearLocals

\* return e, the graph left as it is.
Leave(e) ==
    /\ g' = g
    /\ Return(e)

\* walkFunc(v), the caller's: control passes to the visitor.
Invoke(v) ==
    /\ pc' = "visit"
    /\ cur' = v
    /\ visited' = Append(visited, v)

Paint(gr, v, color) == [gr EXCEPT !.vertices[v].Color = color]

\* Discover with the distance of v copied, not incremented.
DiscoverSameDistance(gr, v, u) ==
    [gr EXCEPT !.vertices[u].Color = Gray,
               !.vertices[u].DistanceFromSource = gr.vertices[v].DistanceFromSource,
               !.vertices[u].Parent = v]

\* Discover without u.Parent = v.
DiscoverNoParent(gr, v, u) ==
    [gr EXCEPT !.vertices[u].Color = Gray,
               !.vertices[u].DistanceFromSource = gr.vertices[v].DistanceFromSource + 1]

\* Discover with the neighbour painted Black at once.
DiscoverPaintedBlack(gr, v, u) ==
    [gr EXCEPT !.vertices[u].Color = Black,
               !.vertices[u].DistanceFromSource = gr.vertices[v].DistanceFromSource + 1,
               !.vertices[u].Parent = v]

\* u.Color = Gray; u.DistanceFromSource = v.DistanceFromSource + 1; u.Parent = v
Discover(gr, v, u) ==
    [gr EXCEPT !.vertices[u].Color = Gray,
               !.vertices[u].DistanceFromSource = gr.vertices[v].DistanceFromSource + 1,
               !.vertices[u].Parent = v]

PushBack(dq, x) == Append(dq, x)
PushFront(dq, x) == <<x>> \o dq
PeekFront(dq) == Head(dq)
PopFront(dq) == Tail(dq)


(***************************************************************************)
(* WalkBFS                                                                 *)
(***************************************************************************)
\* The loop over the neighbours with PushFront in the place of PushBack.
RECURSIVE DiscoverBackToFront(_, _, _, _)
DiscoverBackToFront(gr, dq, v, ns) ==
    IF ns = <<>>
    THEN [g |-> gr, queue |-> dq, panic |-> FALSE]
    ELSE LET u == Head(ns)
         IN IF ~VertexExists(gr, u)
            THEN [g |-> gr, queue |-> dq, panic |-> TRUE]
            ELSE IF gr.vertices[u].Color = White
                 THEN DiscoverBackToFront(Discover(gr, v, u), PushFront(dq, u), v, Tail(ns))
                 ELSE DiscoverBackToFront(gr, dq, v, Tail(ns))

\* for _, u := range neighbours { if u.Color == White { ...; queue.PushBack(u) } }
\* GetNeighbourVertices yields nil for a neighbour that is no key of the
\* vertex map, and u.Color panics on it.
RECURSIVE DiscoverBack(_, _, _, _)
DiscoverBack(gr, dq, v, ns) ==
    IF ns = <<>>
    THEN [g |-> gr, queue |-> dq, panic |-> FALSE]
    ELSE LET u == Head(ns)
         IN IF ~VertexExists(gr, u)
            THEN [g |-> gr, queue |-> dq, panic |-> TRUE]
            ELSE IF gr.vertices[u].Color = White
                 THEN DiscoverBack(Discover(gr, v, u), PushBack(dq, u), v, Tail(ns))
                 ELSE DiscoverBack(gr, dq, v, Tail(ns))

\* The same loop of the depth-first walks, which push to the front.
RECURSIVE DiscoverFront(_, _, _, _)
DiscoverFront(gr, dq, v, ns) ==
    IF ns = <<>>
    THEN [g |-> gr, queue |-> dq]
    ELSE LET u == Head(ns)
         IN IF gr.vertices[u].Color = White
            THEN DiscoverFront(Discover(gr, v, u), PushFront(dq, u), v, Tail(ns))
            ELSE DiscoverFront(gr, dq, v, Tail(ns))

\* SeedWalk without the reset.
SeedWalkNoReset(s) ==
    /\ g' = Paint(g, s, Gray)
    /\ queue' = <<s>>
    /\ pc' = "loop"
    /\ UNCHANGED <<pq, rest, result, cur, ret>>

\* What follows the check in WalkBFS, WalkPreOrderDFS and WalkPostOrderDFS:
\* reset, paint the source, push it.
SeedWalk(s) ==
    /\ g' = Paint(ResetVertexAttributes(g), s, Gray)
    /\ queue' = <<s>>
    /\ pc' = "loop"
    /\ UNCHANGED <<pq, rest, result, cur, ret>>

\* WalkBFS with the reset moved before the check of the source.
WalkBFSResetFirst(s) ==
    /\ Enter("WalkBFS", s, Nil)
    /\ IF ~VertexExists(g, s)
       THEN /\ g' = ResetVertexAttributes(g)
            /\ Return(ErrSourceNotFound)
       ELSE SeedWalk(s)
    /\ Reflect

WalkBFS(s) ==
    /\ Enter("WalkBFS", s, Nil)
    /\ IF ~VertexExists(g, s)
       THEN Leave(ErrSourceNotFound)
       ELSE SeedWalk(s)
    /\ Reflect

\* One turn of the loop up to the call of walkFunc.
BFSLoop ==
    /\ pc = "loop"
    /\ op = "WalkBFS"
    /\ IF queue = <<>>
       THEN /\ Leave(NoError)
            /\ UNCHANGED <<visited>>
       ELSE LET v == PeekFront(queue)
                r == DiscoverBack(g, PopFront(queue), v, GetNeighbours(g, v))
            IN /\ g' = r.g
               /\ queue' = r.queue
               /\ IF r.panic
                  THEN pc' = "panic" /\ UNCHANGED <<cur, visited>>
                  ELSE Invoke(v)
               /\ UNCHANGED <<pq, rest, result, ret>>
    /\ UNCHANGED <<op, source, dest, walkErr>>
    /\ UNCHANGED before
    /\ Reflect

\* The rest of the turn without the test for ErrStopWalking: the walk goes on
\* after it as after nil.
BFSVisitedStopIgnored(e) ==
    /\ pc = "visit"
    /\ op = "WalkBFS"
    /\ walkErr' = e
    /\ IF e \notin {NoError, ErrStopWalking}
       THEN Leave(e)
       ELSE /\ g' = Paint(g, cur, Black)
            /\ pc' = "loop"
            /\ UNCHANGED <<queue, pq, rest, result, cur, ret>>
    /\ UNCHANGED <<op, source, dest, visited>>
    /\ UNCHANGED before
    /\ Reflect

\* walkFunc returns e: the rest of the turn.
BFSVisited(e) ==
    /\ pc = "visit"
    /\ op = "WalkBFS"
    /\ walkErr' = e
    /\ IF e = ErrStopWalking
       THEN Leave(NoError)
       ELSE IF e # NoError
            THEN Leave(e)
            ELSE /\ g' = Paint(g, cur, Black)
                 /\ pc' = "loop"
                 /\ UNCHANGED <<queue, pq, rest, result, cur, ret>>
    /\ UNCHANGED <<op, source, dest, visited>>
    /\ UNCHANGED before
    /\ Reflect

(***************************************************************************)
(* WalkPreOrderDFS                                                         *)
(***************************************************************************)
WalkPreOrderDFS(s) ==
    /\ Enter("WalkPreOrderDFS", s, Nil)
    /\ IF ~VertexExists(g, s)
       THEN Leave(ErrSourceNotFound)
       ELSE SeedWalk(s)
    /\ Reflect

PreOrderLoop ==
    /\ pc = "loop"
    /\ op = "WalkPreOrderDFS"
    /\ IF queue = <<>>
       THEN /\ Leave(NoError)
            /\ UNCHANGED <<visited>>
       ELSE LET v == PeekFront(queue)
                r == DiscoverFront(g, PopFront(queue), v, GetNeighbours(g, v))
            IN /\ g' = r.g
               /\ queue' = r.queue
               /\ Invoke(v)
               /\ UNCHANGED <<pq, rest, result, ret>>
    /\ UNCHANGED <<op, source, dest, walkErr>>
    /\ UNCHANGED before
    /\ Reflect

\* The rest of the turn with v.Color = Black moved before the tests of walkErr.
PreOrderVisitedPaintedFirst(e) ==
    /\ pc = "visit"
    /\ op = "WalkPreOrderDFS"
    /\ walkErr' = e
    /\ g' = Paint(g, cur, Black)
    /\ IF e = ErrStopWalking
       THEN Return(NoError)
       ELSE IF e # NoError
            THEN Return(e)
            ELSE /\ pc' = "loop"
                 /\ UNCHANGED <<queue, pq, rest, result, cur, ret>>
    /\ UNCHANGED <<op, source, dest, visited>>
    /\ UNCHANGED before
    /\ Reflect

PreOrderVisited(e) ==
    /\ pc = "visit"
    /\ op = "WalkPreOrderDFS"
    /\ walkErr' = e
    /\ IF e = ErrStopWalking
       THEN Leave(NoError)
       ELSE IF e # NoError
            THEN Leave(e)
            ELSE /\ g' = Paint(g, cur, Black)
                 /\ pc' = "loop"
                 /\ UNCHANGED <<queue, pq, rest, result, cur, ret>>
    /\ UNCHANGED <<op, source, dest, visited>>
    /\ UNCHANGED before
    /\ Reflect

(***************************************************************************)
(* WalkPostOrderDFS                                                        *)
(***************************************************************************)
WalkPostOrderDFS(s) ==
    /\ Enter("WalkPostOrderDFS", s, Nil)
    /\ IF ~VertexExists(g, s)
       THEN Leave(ErrSourceNotFound)
       ELSE SeedWalk(s)
    /\ Reflect

\* The turn of the loop with the vertex popped and walkFunc called at once,
\* whether or not a neighbour was White.
PostOrderLoopNoPeek ==
    /\ pc = "loop"
    /\ op = "WalkPostOrderDFS"
    /\ IF queue = <<>>
       THEN /\ Leave(NoError)
            /\ UNCHANGED <<visited>>
       ELSE LET v == PeekFront(queue)
                r == DiscoverFront(g, PopFront(queue), v, GetNeighbours(g, v))
            IN /\ g' = r.g
               /\ queue' = r.queue
               /\ Invoke(v)
               /\ UNCHANGED <<pq, rest, result, ret>>
    /\ UNCHANGED <<op, source, dest, walkErr>>
    /\ UNCHANGED before
    /\ Reflect

\* The turn of the loop with isReady never true: the vertex at the top of the
\* stack stays there.
PostOrderLoopNeverReady ==
    /\ pc = "loop"
    /\ op = "WalkPostOrderDFS"
    /\ IF queue = <<>>
       THEN /\ Leave(NoError)
            /\ UNCHANGED <<visited>>
       ELSE LET v == PeekFront(queue)
                r == DiscoverFront(g, queue, v, GetNeighbours(g, v))
            IN /\ g' = r.g
               /\ queue' = r.queue
               /\ UNCHANGED <<pc, cur, visited>>
               /\ UNCHANGED <<pq, rest, result, ret>>
    /\ UNCHANGED <<op, source, dest, walkErr>>
    /\ UNCHANGED before
    /\ Reflect

\* One turn of the loop: peek; push the White neighbours; when there was
\* none (isReady), pop and call walkFunc.
PostOrderLoop ==
    /\ pc = "loop"
    /\ op = "WalkPostOrderDFS"
    /\ IF queue = <<>>
       THEN /\ Leave(NoError)
            /\ UNCHANGED <<visited>>
       ELSE LET v == PeekFront(queue)
                r == DiscoverFront(g, queue, v, GetNeighbours(g, v))
                isReady == r.queue = queue
            IN /\ g' = r.g
               /\ IF isReady
                  THEN /\ queue' = PopFront(r.queue)
                       /\ Invoke(v)
                  ELSE /\ queue' = r.queue
                       /\ UNCHANGED <<pc, cur, visited>>
               /\ UNCHANGED <<pq, rest, result, ret>>
    /\ UNCHANGED <<op, source, dest, walkErr>>
    /\ UNCHANGED before
    /\ Reflect

\* The rest of the turn without popped.Color = Black.
PostOrderVisitedLeftGray(e) ==
    /\ pc = "visit"
    /\ op = "WalkPostOrderDFS"
    /\ walkErr' = e
    /\ IF e = ErrStopWalking
       THEN Leave(NoError)
       ELSE IF e # NoError
            THEN Leave(e)
            ELSE /\ g' = g
                 /\ pc' = "loop"
                 /\ UNCHANGED <<queue, pq, rest, result, cur, ret>>
    /\ UNCHANGED <<op, source, dest, visited>>
    /\ UNCHANGED before
    /\ Reflect

\* The rest of the turn with every error of walkFunc turned into nil.
PostOrderVisitedErrorDropped(e) ==
    /\ pc = "visit"
    /\ op = "WalkPostOrderDFS"
    /\ walkErr' = e
    /\ IF e # NoError
       THEN Leave(NoError)
       ELSE /\ g' = Paint(g, cur, Black)
            /\ pc' = "loop"
            /\ UNCHANGED <<queue, pq, rest, result, cur, ret>>
    /\ UNCHANGED <<op, source, dest, visited>>
    /\ UNCHANGED before
    /\ Reflect

PostOrderVisited(e) ==
    /\ pc = "visit"
    /\ op = "WalkPostOrderDFS"
    /\ walkErr' = e
    /\ IF e = ErrStopWalking
       THEN Leave(NoError)
       ELSE IF e # NoError
            THEN Leave(e)
            ELSE /\ g' = Paint(g, cur, Black)
                 /\ pc' = "loop"
                 /\ UNCHANGED <<queue, pq, rest, result, cur, ret>>
    /\ UNCHANGED <<op, source, dest, visited>>
    /\ UNCHANGED before
    /\ Reflect

(***************************************************************************)
(* WalkUnreachableVertices                                                 *)
(***************************************************************************)
WalkUnreachableVertices(s) ==
    /\ Enter("WalkUnreachableVertices", s, Nil)
    /\ IF ~VertexExists(g, s)
       THEN Leave(ErrSourceNotFound)
       ELSE SeedWalk(s)
    /\ Reflect

\* One turn of the loop of WalkPreOrderDFS under dummyDfsWalk, which returns
\* nil; when the stack is empty WalkPreOrderDFS returns nil and the range
\* over g.GetVertices() starts.
UnreachableDFSLoop ==
    /\ pc = "loop"
    /\ op = "WalkUnreachableVertices"
    /\ IF queue = <<>>
       THEN /\ pc' = "range"
            /\ rest' = GetVertexValues(g)
            /\ UNCHANGED <<g, queue>>
       ELSE LET v == PeekFront(queue)
                r == DiscoverFront(g, PopFront(queue), v, GetNeighbours(g, v))
            IN /\ g' = Paint(r.g, v, Black)
               /\ queue' = r.queue
               /\ UNCHANGED <<pc, rest>>
    /\ UNCHANGED <<op, source, dest, pq, result, cur, visited, walkErr, ret>>
    /\ UNCHANGED before
    /\ Reflect

\* The range over g.GetVertices() without its test of the color.
UnreachableRangeAnyColor ==
    /\ pc = "range"
    /\ op = "WalkUnreachableVertices"
    /\ IF rest = {}
       THEN /\ Leave(NoError)
            /\ UNCHANGED <<visited>>
       ELSE \E v \in rest :
               /\ rest' = rest \ {v}
               /\ Invoke(v)
               /\ UNCHANGED <<g, queue, pq, result, ret>>
    /\ UNCHANGED <<op, source, dest, walkErr>>
    /\ UNCHANGED before
    /\ Reflect

\* The range over g.GetVertices() up to its next call of walkFunc.  The
\* order of the range is any order: the next White vertex is any of those
\* not yet yielded; the others are passed over.
UnreachableRange ==
    /\ pc = "range"
    /\ op = "WalkUnreachableVertices"
    /\ LET whites == {v \in rest : g.vertices[v].Color = White}
       IN IF whites = {}
          THEN /\ Leave(NoError)
               /\ UNCHANGED <<visited>>
          ELSE \E v \in whites :
                  /\ rest' = rest \ {v}
                  /\ Invoke(v)
                  /\ UNCHANGED <<g, queue, pq, result, ret>>
    /\ UNCHANGED <<op, source, dest, walkErr>>
    /\ UNCHANGED before
    /\ Reflect

UnreachableVisited(e) ==
    /\ pc = "visit"
    /\ op = "WalkUnreachableVertices"
    /\ walkErr' = e
    /\ IF e = ErrStopWalking
       THEN Leave(NoError)
       ELSE IF e # NoError
            THEN Leave(e)
            ELSE /\ pc' = "range"
                 /\ UNCHANGED <<g, queue, pq, rest, result, cur, ret>>
    /\ UNCHANGED <<op, source, dest, visited>>
    /\ UNCHANGED before
    /\ Reflect


(***************************************************************************)
(* WalkDijkstra                                                            *)
(***************************************************************************)
\* The part of initializeSourceVertex after its check, without the reset.
InitializeSourceVertexNoReset(gr, s) ==
    LET g2 == [gr EXCEPT !.vertices =
                 [k \in DOMAIN gr.vertices |->
                     [gr.vertices[k] EXCEPT !.DistanceFromSource = Inf]]]
    IN [g2 EXCEPT !.vertices[s].DistanceFromSource = 0]

\* The part of initializeSourceVertex after its check.
InitializeSourceVertex(gr, s) ==
    LET g1 == ResetVertexAttributes(gr)
        g2 == [g1 EXCEPT !.vertices =
                 [k \in DOMAIN g1.vertices |->
                     [g1.vertices[k] EXCEPT !.DistanceFromSource = Inf]]]
    IN [g2 EXCEPT !.vertices[s].DistanceFromSource = 0]

\* relaxEdge counting every edge as of weight 1.
RelaxEdgeByHops(gr, from, to) ==
    IF ~EdgeExists(gr, from, to)
    THEN [g |-> gr, err |-> ErrNoEdge]
    ELSE LET alt == DistAdd(gr.vertices[from].DistanceFromSource, 1)
         IN IF DistLess(alt, gr.vertices[to].DistanceFromSource)
            THEN [g |-> [gr EXCEPT !.vertices[to].DistanceFromSource = alt,
                                   !.vertices[to].Parent = from],
                  err |-> NoError]
            ELSE [g |-> gr, err |-> NoError]

\* relaxEdge: the graph after it and the error it returns.
RelaxEdge(gr, from, to) ==
    IF ~EdgeExists(gr, from, to)
    THEN [g |-> gr, err |-> ErrNoEdge]
    ELSE LET edge == gr.edges[GetEdge(gr, from, to)]
             alt == DistAdd(gr.vertices[from].DistanceFromSource, edge.Weight)
         IN IF DistLess(alt, gr.vertices[to].DistanceFromSource)
            THEN [g |-> [gr EXCEPT !.vertices[to].DistanceFromSource = alt,
                                   !.vertices[to].Parent = from],
                  err |-> NoError]
            ELSE [g |-> gr, err |-> NoError]

\* The priority queue: Put, Update (of an item it holds) and the items Get
\* may return, those of least priority; among equal priorities the one
\* returned depends on the order of the Puts, which is the order of a range
\* over the vertex map, so it is any of them.
PQPutAll(gr) == [k \in DOMAIN gr.vertices |-> gr.vertices[k].DistanceFromSource]

PQUpdate(q, item, priority) ==
    IF item \in DOMAIN q THEN [q EXCEPT ![item] = priority] ELSE q

PQMinItems(q) == {v \in DOMAIN q : \A u \in DOMAIN q : ~DistLess(q[u], q[v])}

PQRemove(q, item) == [k \in DOMAIN q \ {item} |-> q[k]]

\* for _, u := range g.GetNeighbourVertices(v.Value) { relaxEdge; queue.Update }
\* The outcome r of relaxEdge is bound as the element of a singleton, which
\* has it computed once for the turn.
RECURSIVE RelaxNeighbours(_, _, _, _)
RelaxNeighbours(gr, q, v, ns) ==
    IF ns = <<>>
    THEN [g |-> gr, pq |-> q, err |-> NoError]
    ELSE LET u == Head(ns)
             oldDist == gr.vertices[u].DistanceFromSource
         IN CHOOSE out \in
               {IF r.err # NoError
                THEN [g |-> r.g, pq |-> q, err |-> r.err]
                ELSE IF r.g.vertices[u].DistanceFromSource # oldDist
                     THEN RelaxNeighbours(r.g, PQUpdate(q, u, r.g.vertices[u].DistanceFromSource),
                                          v, Tail(ns))
                     ELSE RelaxNeighbours(r.g, q, v, Tail(ns)) :
                   r \in {RelaxEdge(gr, v, u)}} : TRUE

\* What follows the checks in WalkDijkstra: initialize, enqueue all vertices.
SeedDijkstra(s) ==
    /\ g' = InitializeSourceVertex(g, s)
    /\ pq' = PQPutAll(InitializeSourceVertex(g, s))
    /\ pc' = "loop"
    /\ UNCHANGED <<queue, rest, result, cur, ret>>

WalkDijkstra(s) ==
    /\ Enter("WalkDijkstra", s, Nil)
    /\ IF ~VertexExists(g, s)
       THEN Leave(ErrSourceNotFound)
       ELSE SeedDijkstra(s)
    /\ Reflect

\* One turn of the loop up to the call of walkFunc.
DijkstraLoop ==
    /\ pc = "loop"
    /\ op = "WalkDijkstra"
    /\ IF DOMAIN pq = {}
       THEN /\ Leave(NoError)
            /\ UNCHANGED <<visited>>
       ELSE \E v \in PQMinItems(pq) :
               LET r == RelaxNeighbours(g, PQRemove(pq, v), v, GetNeighbours(g, v))
               IN IF r.err # NoError
                  THEN /\ g' = r.g
                       /\ Return(r.err)
                       /\ UNCHANGED <<visited>>
                  ELSE /\ g' = r.g
                       /\ pq' = r.pq
                       /\ Invoke(v)
                       /\ UNCHANGED <<queue, rest, result, ret>>
    /\ UNCHANGED <<op, source, dest, walkErr>>
    /\ UNCHANGED before
    /\ Reflect

DijkstraVisited(e) ==
    /\ pc = "visit"
    /\ op = "WalkDijkstra"
    /\ walkErr' = e
    /\ IF e = ErrStopWalking
       THEN Leave(NoError)
       ELSE IF e # NoError
            THEN Leave(e)
            ELSE /\ pc' = "loop"
                 /\ UNCHANGED <<g, queue, pq, rest, result, cur, ret>>
    /\ UNCHANGED <<op, source, dest, visited>>
    /\ UNCHANGED before
    /\ Reflect

(***************************************************************************)
(* WalkShortestPath                                                        *)
(***************************************************************************)
WalkShortestPath(s, d) ==
    /\ Enter("WalkShortestPath", s, d)
    /\ IF ~VertexExists(g, s)
       THEN Leave(ErrSourceNotFound)
       ELSE IF ~VertexExists(g, d)
            THEN Leave(ErrDestNotFound)
            ELSE SeedDijkstra(s)
    /\ Reflect

\* slices.Reverse
RECURSIVE Reverse(_)
Reverse(sq) == IF sq = <<>> THEN <<>> ELSE Append(Reverse(Tail(sq)), Head(sq))

\* One turn of the loop of WalkDijkstra under the walker that returns
\* ErrStopWalking on dest.  When WalkDijkstra returns nil (queue empty, or
\* the walker stopped it) the parent-chain loop starts at dest.
ShortestPathDijkstraLoop ==
    /\ pc = "loop"
    /\ op = "WalkShortestPath"
    /\ IF DOMAIN pq = {}
       THEN /\ pc' = "chain"
            /\ cur' = dest
            /\ result' = <<>>
            /\ pq' = NoItems
            /\ UNCHANGED <<g, ret, queue, rest>>
       ELSE \E v \in PQMinItems(pq) :
               LET r == RelaxNeighbours(g, PQRemove(pq, v), v, GetNeighbours(g, v))
               IN IF r.err # NoError
                  THEN /\ g' = r.g
                       /\ Return(r.err)
                  ELSE /\ g' = r.g
                       /\ IF v = dest
                          THEN /\ pc' = "chain"
                               /\ cur' = dest
                               /\ result' = <<>>
                               /\ pq' = NoItems
                          ELSE /\ pq' = r.pq
                               /\ UNCHANGED <<pc, cur, result>>
                       /\ UNCHANGED <<ret, queue, rest>>
    /\ UNCHANGED <<op, source, dest, visited, walkErr>>
    /\ UNCHANGED before
    /\ Reflect

\* One turn of the parent-chain loop; when it breaks, result is reversed
\* and the range over it starts.
ShortestPathChain ==
    /\ pc = "chain"
    /\ op = "WalkShortestPath"
    /\ IF cur = source
       THEN /\ result' = Reverse(Append(result, cur))
            /\ pc' = "range"
            /\ cur' = Nil
            /\ UNCHANGED <<g, ret, queue, pq, rest>>
       ELSE IF g.vertices[cur].Parent = Nil
            THEN Leave(ErrNoPath)
            ELSE /\ result' = Append(result, cur)
                 /\ cur' = g.vertices[cur].Parent
                 /\ UNCHANGED <<g, pc, ret, queue, pq, rest>>
    /\ UNCHANGED <<op, source, dest, visited, walkErr>>
    /\ UNCHANGED before
    /\ Reflect

\* The range over result up to its next call of walkFunc.
ShortestPathRange ==
    /\ pc = "range"
    /\ op = "WalkShortestPath"
    /\ IF result = <<>>
       THEN /\ Leave(NoError)
            /\ UNCHANGED <<visited>>
       ELSE /\ result' = Tail(result)
            /\ Invoke(Head(result))
            /\ UNCHANGED <<g, ret, queue, pq, rest>>
    /\ UNCHANGED <<op, source, dest, walkErr>>
    /\ UNCHANGED before
    /\ Reflect

ShortestPathVisited(e) ==
    /\ pc = "visit"
    /\ op = "WalkShortestPath"
    /\ walkErr' = e
    /\ IF e = ErrStopWalking
       THEN Leave(NoError)
       ELSE IF e # NoError
            THEN Leave(e)
            ELSE /\ pc' = "range"
                 /\ UNCHANGED <<g, queue, pq, rest, result, cur, ret>>
    /\ UNCHANGED <<op, source, dest, visited>>
    /\ UNCHANGED before
    /\ Reflect


(***************************************************************************)
(* WalkTopoOrder                                                           *)
(***************************************************************************)
\* The neighbour loop of dfsPostOrder without its test for a Gray neighbour.
RECURSIVE TopoDiscoverGrayIgnored(_, _, _, _)
TopoDiscoverGrayIgnored(gr, dq, v, ns) ==
    IF ns = <<>>
    THEN [g |-> gr, queue |-> dq, err |-> NoError]
    ELSE LET u == Head(ns)
         IN IF gr.vertices[u].Color = White
            THEN TopoDiscoverGrayIgnored(Discover(gr, v, u), PushFront(dq, u), v, Tail(ns))
            ELSE TopoDiscoverGrayIgnored(gr, dq, v, Tail(ns))

\* The neighbour loop of dfsPostOrder: a White neighbour is painted and
\* pushed, a Gray one ends the loop with ErrCycleDetected.
RECURSIVE TopoDiscover(_, _, _, _)
TopoDiscover(gr, dq, v, ns) ==
    IF ns = <<>>
    THEN [g |-> gr, queue |-> dq, err |-> NoError]
    ELSE LET u == Head(ns)
         IN IF gr.vertices[u].Color = White
            THEN TopoDiscover(Discover(gr, v, u), PushFront(dq, u), v, Tail(ns))
            ELSE IF gr.vertices[u].Color = Gray
                 THEN [g |-> gr, queue |-> dq, err |-> ErrCycleDetected]
                 ELSE TopoDiscover(gr, dq, v, Tail(ns))

\* WalkTopoOrder with the reset moved before the check of the kind.
WalkTopoOrderResetFirst ==
    /\ Enter("WalkTopoOrder", Nil, Nil)
    /\ IF Kind(g) # KindDirected
       THEN /\ g' = ResetVertexAttributes(g)
            /\ Return(ErrIsNotDirectedGraph)
       ELSE /\ g' = ResetVertexAttributes(g)
            /\ rest' = GetVertexValues(g)
            /\ pc' = "queue"
            /\ UNCHANGED <<queue, pq, result, cur, ret>>
    /\ Reflect

WalkTopoOrder ==
    /\ Enter("WalkTopoOrder", Nil, Nil)
    /\ IF Kind(g) # KindDirected
       THEN Leave(ErrIsNotDirectedGraph)
       ELSE /\ g' = ResetVertexAttributes(g)
            /\ rest' = GetVertexValues(g)
            /\ pc' = "queue"
            /\ UNCHANGED <<queue, pq, result, cur, ret>>
    /\ Reflect

\* The loop over the queue of all vertices, up to the start of the loop of
\* the next dfsPostOrder that has one.  The queue was filled by a range
\* over the vertex map, so the vertices are popped in any order.  For a
\* Black vertex dfsPostOrder returns an empty result and the turn changes
\* nothing: such turns are passed over.
TopoQueueLoop ==
    /\ pc = "queue"
    /\ op = "WalkTopoOrder"
    /\ LET todo == {v \in rest : g.vertices[v].Color # Black}
       IN IF todo = {}
          THEN Leave(NoError)
          ELSE \E v \in todo :
                  /\ rest' = rest \ {v}
                  /\ g' = Paint(g, v, Gray)
                  /\ queue' = PushFront(<<>>, v)
                  /\ result' = <<>>
                  /\ pc' = "loop"
                  /\ UNCHANGED <<pq, cur, ret>>
    /\ UNCHANGED <<op, source, dest, visited, walkErr>>
    /\ UNCHANGED before
    /\ Reflect

\* One turn of the loop of dfsPostOrder.  When the stack is empty it
\* returns result and the range over it starts.
TopoDFSLoop ==
    /\ pc = "loop"
    /\ op = "WalkTopoOrder"
    /\ IF queue = <<>>
       THEN /\ pc' = "range"
            /\ UNCHANGED <<g, queue, pq, rest, result, cur, ret>>
       ELSE LET v == PeekFront(queue)
                r == TopoDiscover(g, queue, v, GetNeighbours(g, v))
                isReady == r.queue = queue
            IN IF r.err # NoError
               THEN /\ g' = r.g
                    /\ Return(r.err)
               ELSE /\ IF isReady
                       THEN /\ g' = Paint(r.g, v, Black)
                            /\ queue' = PopFront(r.queue)
                            /\ result' = Append(result, v)
                       ELSE /\ g' = r.g
                            /\ queue' = r.queue
                            /\ UNCHANGED <<result>>
                    /\ UNCHANGED <<pc, pq, rest, cur, ret>>
    /\ UNCHANGED <<op, source, dest, visited, walkErr>>
    /\ UNCHANGED before
    /\ Reflect

\* The range over the vertices dfsPostOrder returned, taken from the end.
TopoRangeBackwards ==
    /\ pc = "range"
    /\ op = "WalkTopoOrder"
    /\ IF result = <<>>
       THEN /\ pc' = "queue"
            /\ UNCHANGED <<cur, visited>>
       ELSE /\ Invoke(result[Len(result)])
    /\ result' = IF result = <<>> THEN result ELSE SubSeq(result, 1, Len(result) - 1)
    /\ UNCHANGED <<g, queue, pq, rest, ret, op, source, dest, walkErr>>
    /\ UNCHANGED before
    /\ Reflect

\* The range over the vertices dfsPostOrder returned, up to its next call
\* of walkFunc.
TopoRange ==
    /\ pc = "range"
    /\ op = "WalkTopoOrder"
    /\ IF result = <<>>
       THEN /\ pc' = "queue"
            /\ UNCHANGED <<cur, visited>>
       ELSE /\ Invoke(Head(result))
    /\ result' = IF result = <<>> THEN result ELSE Tail(result)
    /\ UNCHANGED <<g, queue, pq, rest, ret, op, source, dest, walkErr>>
    /\ UNCHANGED before
    /\ Reflect

TopoVisited(e) ==
    /\ pc = "visit"
    /\ op = "WalkTopoOrder"
    /\ walkErr' = e
    /\ IF e = ErrStopWalking
       THEN Leave(NoError)
       ELSE IF e # NoError
            THEN Leave(e)
            ELSE /\ pc' = "range"
                 /\ UNCHANGED <<g, queue, pq, rest, result, cur, ret>>
    /\ UNCHANGED <<op, source, dest, visited>>
    /\ UNCHANGED before
    /\ Reflect

(***************************************************************************)
(* Specifications.                                                         *)
(***************************************************************************)
\* The keys a call is made with: the vertices and one value that is not a
\* vertex (which one does not matter, see InOrder).
CallKeys == 1..(Cardinality(DOMAIN g.vertices) + 1)

\* The first call is made on the graph as built.
First(Call) == pc = "idle" /\ Call

\* After a call has returned, the model follows the calls that return at
\* once (those that fail a check) and no further traversal.
Again(Call) == pc = "done" /\ Call /\ pc' = "done"

\* All entry points, on graphs of either kind built with AddVertex and
\* AddEdge.
Next ==
    \/ \E k \in 1..NumKeys : DoAddVertex(k)
    \/ \E u, v \in 1..NumKeys : DoAddEdge(MaxEdges, u, v)
    \/ \E s \in CallKeys : First(WalkBFS(s))
    \/ BFSLoop
    \/ \E e \in WalkFuncResults : BFSVisited(e)
    \/ \E s \in CallKeys : First(WalkPreOrderDFS(s))
    \/ PreOrderLoop
    \/ \E e \in WalkFuncResults : PreOrderVisited(e)
    \/ \E s \in CallKeys : First(WalkPostOrderDFS(s))
    \/ PostOrderLoop
    \/ \E e \in WalkFuncResults : PostOrderVisited(e)
    \/ \E s \in CallKeys : First(WalkUnreachableVertices(s))
    \/ UnreachableDFSLoop
    \/ UnreachableRange
    \/ \E e \in WalkFuncResults : UnreachableVisited(e)
    \/ \E s \in CallKeys : First(WalkDijkstra(s))
    \/ DijkstraLoop
    \/ \E e \in WalkFuncResults : DijkstraVisited(e)
    \/ \E s, d \in CallKeys : First(WalkShortestPath(s, d))
    \/ ShortestPathDijkstraLoop
    \/ ShortestPathChain
    \/ ShortestPathRange
    \/ \E e \in WalkFuncResults : ShortestPathVisited(e)
    \/ First(WalkTopoOrder)
    \/ TopoQueueLoop
    \/ TopoDFSLoop
    \/ TopoRange
    \/ \E e \in WalkFuncResults : TopoVisited(e)

Spec == Init /\ [][Next]_vars

\* The same, each call followed by calls that fail a check.
NextRefuse ==
    \/ \E k \in 1..RefuseKeys : DoAddVertex(k)
    \/ \E u, v \in 1..RefuseKeys : DoAddEdge(RefuseMaxEdges, u, v)
    \/ \E s \in CallKeys : First(WalkBFS(s))
    \/ \E s \in CallKeys : Again(WalkBFS(s))
    \/ BFSLoop
    \/ \E e \in WalkFuncResults : BFSVisited(e)
    \/ \E s \in CallKeys : First(WalkPreOrderDFS(s))
    \/ \E s \in CallKeys : Again(WalkPreOrderDFS(s))
    \/ PreOrderLoop
    \/ \E e \in WalkFuncResults : PreOrderVisited(e)
    \/ \E s \in CallKeys : First(WalkPostOrderDFS(s))
    \/ \E s \in CallKeys : Again(WalkPostOrderDFS(s))
    \/ PostOrderLoop
    \/ \E e \in WalkFuncResults : PostOrderVisited(e)
    \/ \E s \in CallKeys : First(WalkUnreachableVertices(s))
    \/ \E s \in CallKeys : Again(WalkUnreachableVertices(s))
    \/ UnreachableDFSLoop
    \/ UnreachableRange
    \/ \E e \in WalkFuncResults : UnreachableVisited(e)
    \/ \E s \in CallKeys : First(WalkDijkstra(s))
    \/ \E s \in CallKeys : Again(WalkDijkstra(s))
    \/ DijkstraLoop
    \/ \E e \in WalkFuncResults : DijkstraVisited(e)
    \/ \E s, d \in CallKeys : First(WalkShortestPath(s, d))
    \/ \E s, d \in CallKeys : Again(WalkShortestPath(s, d))
    \/ ShortestPathDijkstraLoop
    \/ ShortestPathChain
    \/ ShortestPathRange
    \/ \E e \in WalkFuncResults : ShortestPathVisited(e)
    \/ First(WalkTopoOrder)
    \/ Again(WalkTopoOrder)
    \/ TopoQueueLoop
    \/ TopoDFSLoop
    \/ TopoRange
    \/ \E e \in WalkFuncResults : TopoVisited(e)

SpecRefuse == Init /\ [][NextRefuse]_vars

\* WalkBFS on graphs of either kind built with AddVertex and AddEdge.
NextBFS ==
    \/ \E k \in 1..BFSKeys : DoAddVertex(k)
    \/ \E u, v \in 1..BFSKeys : DoAddEdge(BFSMaxEdges, u, v)
    \/ \E s \in CallKeys : First(WalkBFS(s))
    \/ BFSLoop
    \/ \E e \in WalkFuncResults : BFSVisited(e)

SpecBFS == Init /\ [][NextBFS]_vars

\* WalkUnreachableVertices on graphs of either kind built with AddVertex and
\* AddEdge.
NextUnreachable ==
    \/ \E k \in 1..UnreachableKeys : DoAddVertex(k)
    \/ \E u, v \in 1..UnreachableKeys : DoAddEdge(UnreachableMaxEdges, u, v)
    \/ \E s \in CallKeys : First(WalkUnreachableVertices(s))
    \/ UnreachableDFSLoop
    \/ UnreachableRange
    \/ \E e \in WalkFuncResults : UnreachableVisited(e)

SpecUnreachable == Init /\ [][NextUnreachable]_vars

\* All entry points one after another, each called once the one before has
\* returned, on graphs of either kind built with AddVertex and AddEdge.
NextRerun ==
    \/ \E k \in 1..RerunKeys : DoAddVertex(k)
    \/ \E u, v \in 1..RerunKeys : DoAddEdge(RerunMaxEdges, u, v)
    \/ \E s \in CallKeys : WalkBFS(s)
    \/ BFSLoop
    \/ \E e \in WalkFuncResults : BFSVisited(e)
    \/ \E s \in CallKeys : WalkPreOrderDFS(s)
    \/ PreOrderLoop
    \/ \E e \in WalkFuncResults : PreOrderVisited(e)
    \/ \E s \in CallKeys : WalkPostOrderDFS(s)
    \/ PostOrderLoop
    \/ \E e \in WalkFuncResults : PostOrderVisited(e)
    \/ \E s \in CallKeys : WalkUnreachableVertices(s)
    \/ UnreachableDFSLoop
    \/ UnreachableRange
    \/ \E e \in WalkFuncResults : UnreachableVisited(e)
    \/ \E s \in CallKeys : WalkDijkstra(s)
    \/ DijkstraLoop
    \/ \E e \in WalkFuncResults : DijkstraVisited(e)
    \/ \E s, d \in CallKeys : WalkShortestPath(s, d)
    \/ ShortestPathDijkstraLoop
    \/ ShortestPathChain
    \/ ShortestPathRange
    \/ \E e \in WalkFuncResults : ShortestPathVisited(e)
    \/ WalkTopoOrder
    \/ TopoQueueLoop
    \/ TopoDFSLoop
    \/ TopoRange
    \/ \E e \in WalkFuncResults : TopoVisited(e)

SpecRerun == Init /\ [][NextRerun]_vars

\* A graph of either kind and its clone: building, writing attributes, one
\* WalkBFS, DeleteVertex, on the one and on the other.
NextClone ==
    \/ \E k \in 1..CloneKeys : DoAddVertex(k)
    \/ \E u, v \in 1..CloneKeys : DoAddEdge(CloneMaxEdges, u, v)
    \/ \E u, v \in 1..CloneKeys, w \in StoreWeights : DoAddWeightedEdge(CloneMaxEdges, u, v, w)
    \/ \E k \in 1..CloneKeys, n \in AttributeNames, val \in AttributeValues :
          SetVertexAttribute(k, n, val)
    \/ \E u, v \in 1..CloneKeys, n \in AttributeNames, val \in AttributeValues :
          SetEdgeAttribute(u, v, n, val)
    \/ \E s \in 1..CloneKeys : First(WalkBFS(s))
    \/ BFSLoop
    \/ \E e \in WalkFuncResults : BFSVisited(e)
    \/ \E v \in 1..CloneKeys : CallDeleteVertex(v)
    \/ DoClone
    \/ Turn

SpecClone == Init /\ [][NextClone]_vars

\* AddVertex, AddEdge and AddWeightedEdge on a graph of either kind.
NextInsert ==
    \/ \E k \in 1..InsertKeys : CallAddVertex(k)
    \/ \E u, v \in 1..InsertKeys : CallAddEdge(InsertMaxEdges, u, v)
    \/ \E u, v \in 1..InsertKeys, w \in InsertWeights : CallAddWeightedEdge(InsertMaxEdges, u, v, w)

SpecInsert == Init /\ [][NextInsert]_vars

\* DeleteEdge and DeleteVertex on graphs of either kind built with AddVertex,
\* AddEdge and AddWeightedEdge.
NextStore ==
    \/ \E k \in 1..StoreKeys : DoAddVertex(k)
    \/ \E u, v \in 1..StoreKeys : DoAddEdge(StoreMaxEdges, u, v)
    \/ \E u, v \in 1..StoreKeys, w \in StoreWeights : DoAddWeightedEdge(StoreMaxEdges, u, v, w)
    \/ \E u, v \in 1..StoreKeys : CallDeleteEdge(u, v)
    \/ \E v \in 1..StoreKeys : CallDeleteVertex(v)

SpecStore == Init /\ [][NextStore]_vars

\* WalkShortestPath on undirected graphs built with AddVertex, AddEdge and
\* AddWeightedEdge.
InitPath == InitFrom({New(KindUndirected)})

NextPath ==
    \/ \E k \in 1..PathKeys : DoAddVertex(k)
    \/ \E u, v \in 1..PathKeys : DoAddEdge(PathMaxEdges, u, v)
    \/ \E u, v \in 1..PathKeys, w \in Weights : DoAddWeightedEdge(PathMaxEdges, u, v, w)
    \/ \E s, d \in CallKeys : First(WalkShortestPath(s, d))
    \/ ShortestPathDijkstraLoop
    \/ ShortestPathChain
    \/ ShortestPathRange
    \/ \E e \in WalkFuncResults : ShortestPathVisited(e)

SpecPath == InitPath /\ [][NextPath]_vars

\* WalkDijkstra and WalkShortestPath on graphs of either kind built with
\* AddVertex, AddEdge and AddWeightedEdge.
NextPathAny ==
    \/ \E k \in 1..AnyKeys : DoAddVertex(k)
    \/ \E u, v \in 1..AnyKeys : DoAddEdge(AnyMaxEdges, u, v)
    \/ \E u, v \in 1..AnyKeys, w \in Weights : DoAddWeightedEdge(AnyMaxEdges, u, v, w)
    \/ \E s \in CallKeys : First(WalkDijkstra(s))
    \/ DijkstraLoop
    \/ \E e \in WalkFuncResults : DijkstraVisited(e)
    \/ \E s, d \in CallKeys : First(WalkShortestPath(s, d))
    \/ ShortestPathDijkstraLoop
    \/ ShortestPathChain
    \/ ShortestPathRange
    \/ \E e \in WalkFuncResults : ShortestPathVisited(e)

SpecPathAny == Init /\ [][NextPathAny]_vars

\* WalkTopoOrder on directed graphs built with AddVertex and AddEdge.
\* The graph of TestWalkTopoOrder, the chain 1 -> 2 -> 3 -> 4, is one of the
\* graphs the specification starts from.
TestChain == AddEdge(AddEdge(AddEdge(New(KindDirected), 1, 2), 2, 3), 3, 4)

InitTopo == InitFrom({New(KindDirected), TestChain})

NextTopo ==
    \/ \E k \in 1..TopoKeys : DoAddVertex(k)
    \/ \E u, v \in 1..TopoKeys : DoAddEdge(TopoMaxEdges, u, v)
    \/ First(WalkTopoOrder)
    \/ TopoQueueLoop
    \/ TopoDFSLoop
    \/ TopoRange
    \/ \E e \in WalkFuncResults : TopoVisited(e)

SpecTopo == InitTopo /\ [][NextTopo]_vars

\* WalkBFS, WalkPreOrderDFS, WalkPostOrderDFS and WalkTopoOrder on graphs of
\* either kind built with AddVertex and AddEdge.
NextWalk ==
    \/ \E k \in 1..WalkKeys : DoAddVertex(k)
    \/ \E u, v \in 1..WalkKeys : DoAddEdge(WalkMaxEdges, u, v)
    \/ \E s \in CallKeys : First(WalkBFS(s))
    \/ BFSLoop
    \/ \E e \in WalkFuncResults : BFSVisited(e)
    \/ \E s \in CallKeys : First(WalkPreOrderDFS(s))
    \/ PreOrderLoop
    \/ \E e \in WalkFuncResults : PreOrderVisited(e)
    \/ \E s \in CallKeys : First(WalkPostOrderDFS(s))
    \/ PostOrderLoop
    \/ \E e \in WalkFuncResults : PostOrderVisited(e)
    \/ First(WalkTopoOrder)
    \/ TopoQueueLoop
    \/ TopoDFSLoop
    \/ TopoRange
    \/ \E e \in WalkFuncResults : TopoVisited(e)

SpecWalk == Init /\ [][NextWalk]_vars

\* AddEdge(u, v) followed by DeleteEdge(u, v), on a graph of either kind built
\* with AddVertex, AddEdge and AddWeightedEdge of which the caller took a
\* Clone first, to compare the graph with afterwards.
NextUndo ==
    \/ \E k \in 1..UndoKeys : h = NoGraph /\ DoAddVertex(k)
    \/ \E u, v \in 1..UndoKeys : h = NoGraph /\ DoAddEdge(UndoMaxEdges, u, v)
    \/ \E u, v \in 1..UndoKeys, w \in StoreWeights :
          h = NoGraph /\ DoAddWeightedEdge(UndoMaxEdges, u, v, w)
    \/ First(DoClone)
    \/ \E u, v \in 1..UndoKeys :
          h # NoGraph /\ op = "none" /\ CallAddEdge(UndoMaxEdges + 1, u, v)
    \/ op = "AddEdge" /\ CallDeleteEdge(source, dest)

SpecUndo == Init /\ [][NextUndo]_vars

\* The steps of a call under way: the turns of its loops and the returns of
\* walkFunc.
Running ==
    \/ BFSLoop
    \/ \E e \in WalkFuncResults : BFSVisited(e)
    \/ PreOrderLoop
    \/ \E e \in WalkFuncResults : PreOrderVisited(e)
    \/ PostOrderLoop
    \/ \E e \in WalkFuncResults : PostOrderVisited(e)
    \/ UnreachableDFSLoop
    \/ UnreachableRange
    \/ \E e \in WalkFuncResults : UnreachableVisited(e)
    \/ DijkstraLoop
    \/ \E e \in WalkFuncResults : DijkstraVisited(e)
    \/ ShortestPathDijkstraLoop
    \/ ShortestPathChain
    \/ ShortestPathRange
    \/ \E e \in WalkFuncResults : ShortestPathVisited(e)
    \/ TopoQueueLoop
    \/ TopoDFSLoop
    \/ TopoRange
    \/ \E e \in WalkFuncResults : TopoVisited(e)

\* All entry points on graphs of either kind built with AddVertex, AddEdge
\* and AddWeightedEdge; a call under way takes its next step (the code is
\* sequential and walkFunc returns).
NextLive ==
    \/ \E k \in 1..LiveKeys : DoAddVertex(k)
    \/ \E u, v \in 1..LiveKeys : DoAddEdge(LiveMaxEdges, u, v)
    \/ \E u, v \in 1..LiveKeys, w \in Weights : DoAddWeightedEdge(LiveMaxEdges, u, v, w)
    \/ \E s \in CallKeys : First(WalkBFS(s))
    \/ \E s \in CallKeys : First(WalkPreOrderDFS(s))
    \/ \E s \in CallKeys : First(WalkPostOrderDFS(s))
    \/ \E s \in CallKeys : First(WalkUnreachableVertices(s))
    \/ \E s \in CallKeys : First(WalkDijkstra(s))
    \/ \E s, d \in CallKeys : First(WalkShortestPath(s, d))
    \/ First(WalkTopoOrder)
    \/ Running

SpecLive == Init /\ [][NextLive]_vars /\ WF_vars(Running)

\* WalkTopoOrder, with a walkFunc that always returns nil, on the directed
\* graph of the README: 1 -> 2, 1 -> 3, 2 -> 4, 3 -> 4, 4 -> 5, added in that
\* order.
ReadmeGraph ==
    AddEdge(AddEdge(AddEdge(AddEdge(AddEdge(New(KindDirected), 1, 2), 1, 3), 2, 4), 3, 4), 4, 5)

InitReadme == InitFrom({ReadmeGraph})

NextReadme ==
    \/ First(WalkTopoOrder)
    \/ TopoQueueLoop
    \/ TopoDFSLoop
    \/ TopoRange
    \/ TopoVisited(NoError)

SpecReadme == InitReadme /\ [][NextReadme]_vars

(***************************************************************************)
(* Notions the properties are stated with, computed from the vertex map    *)
(* and the edge list alone, not from the adjacency lists or the fields     *)
(* the traversals write.                                                   *)
(***************************************************************************)
Range(sq) == {sq[i] : i \in 1..Len(sq)}

Min(S) == CHOOSE x \in S : \A y \in S : x <= y

\* The edges that lead from u to v: those from u to v, and in an undirected
\* graph those from v to u as well.
EdgesFromTo(gr, u, v) ==
    {e \in Range(gr.edges) :
        \/ e.From = u /\ e.To = v
        \/ gr.kind = KindUndirected /\ e.From = v /\ e.To = u}

\* The vertices one edge away from v.
Successors(gr, v) == {u \in DOMAIN gr.vertices : EdgesFromTo(gr, v, u) # {}}

\* The vertices at most n edges away from a vertex of S.
RECURSIVE Within(_, _, _)
Within(gr, S, n) ==
    IF n = 0
    THEN S
    ELSE LET W == Within(gr, S, n - 1)
         IN W \cup UNION {Successors(gr, v) : v \in W}

ReachableFrom(gr, s) == Within(gr, {s}, Cardinality(DOMAIN gr.vertices))

\* The least number of edges of a path from s to v, for v reachable from s.
HopCount(gr, s, v) ==
    Min({n \in 0..Cardinality(DOMAIN gr.vertices) : v \in Within(gr, {s}, n)})

\* A directed cycle: some vertex is reachable from one of its successors.
HasCycle(gr) ==
    \E v \in DOMAIN gr.vertices :
        \E u \in Successors(gr, v) : v \in ReachableFrom(gr, u)

\* The least total weight of a walk of at most n edges from s to v, Inf when
\* there is none.
RECURSIVE Cheapest(_, _, _, _)
Cheapest(gr, s, v, n) ==
    IF n = 0
    THEN IF v = s THEN 0 ELSE Inf
    ELSE Min({Cheapest(gr, s, v, n - 1)} \cup
             UNION {{DistAdd(Cheapest(gr, s, u, n - 1), e.Weight) : e \in EdgesFromTo(gr, u, v)} :
                        u \in DOMAIN gr.vertices})

\* The least total weight of a path from s to v.
MinWeight(gr, s, v) == Cheapest(gr, s, v, Cardinality(DOMAIN gr.vertices))

\* The place of x in sq.
PosIn(sq, x) == Min({i \in 1..Len(sq) : sq[i] = x})

\* The entry points that take a source.
SourceOps ==
    {"WalkBFS", "WalkPreOrderDFS", "WalkPostOrderDFS", "WalkUnreachableVertices",
     "WalkDijkstra", "WalkShortestPath"}

\* This step is a call of an entry point (the steps that build the graph
\* leave pc at "idle").
IsCall == pc \in {"idle", "done"} /\ pc' # "idle"

\* The last call returned and every walkFunc call of it, if any, returned nil.
Completed(o) == pc = "done" /\ op = o /\ walkErr = NoError

(***************************************************************************)
(* Properties.                                                             *)
(***************************************************************************)
\* C1: a call of WalkBFS, WalkPreOrderDFS, WalkPostOrderDFS, WalkDijkstra,
\* WalkUnreachableVertices or WalkShortestPath whose source is not a vertex
\* (for WalkShortestPath also one whose dest alone is not a vertex) returns
\* an error at once, without a call of walkFunc, and leaves the Color,
\* DistanceFromSource and Parent of every vertex as they were.
C1_AbsentSourceRefused ==
    [][(/\ IsCall
        /\ op' \in SourceOps
        /\ \/ ~VertexExists(g, source')
           \/ op' = "WalkShortestPath" /\ ~VertexExists(g, dest'))
       => (/\ pc' = "done"
           /\ ret' \in {ErrSourceNotFound, ErrDestNotFound}
           /\ visited' = <<>>
           /\ Attrs(g') = Attrs(g))]_vars

\* A call with an absent source has returned its error on a graph whose
\* vertices an earlier walk had painted Black.
C1_Witness ==
    /\ pc = "done"
    /\ op = "WalkBFS"
    /\ ~VertexExists(g, source)
    /\ ret = ErrSourceNotFound
    /\ visited = <<>>
    /\ \E v \in DOMAIN g.vertices : g.vertices[v].Color = Black

\* C2: in every entry point, when walkFunc returns ErrStopWalking on a
\* vertex the call returns nil then and there: walkFunc is not called again,
\* the vertices it was called on are the visit sequence up to that vertex,
\* and the fields written so far stay as they are.
C2_StopReturnsNil ==
    [][(pc = "visit" /\ walkErr' = ErrStopWalking)
       => (/\ pc' = "done"
           /\ ret' = NoError
           /\ visited' = visited
           /\ visited[Len(visited)] = cur
           /\ Attrs(g') = Attrs(g))]_vars

\* WalkBFS was stopped at a vertex while another one, discovered and Gray,
\* was still to be visited.
C2_Witness ==
    /\ pc = "done"
    /\ op = "WalkBFS"
    /\ walkErr = ErrStopWalking
    /\ ret = NoError
    /\ Len(visited) < Cardinality(DOMAIN g.vertices)
    /\ \E v \in DOMAIN g.vertices : g.vertices[v].Color = Gray /\ v \notin Range(visited)

\* C3: in every entry point, when walkFunc returns an error other than
\* ErrStopWalking on a vertex the call returns that very error then and
\* there, and walkFunc is not called again.
C3_ErrorReturnedAsIs ==
    [][(pc = "visit" /\ walkErr' \notin {NoError, ErrStopWalking})
       => (/\ pc' = "done"
           /\ ret' = walkErr'
           /\ visited' = visited
           /\ visited[Len(visited)] = cur)]_vars

\* WalkPostOrderDFS returned the error of walkFunc with a vertex still to be
\* visited.
C3_Witness ==
    /\ pc = "done"
    /\ op = "WalkPostOrderDFS"
    /\ walkErr \in VisitorErrors
    /\ ret = walkErr
    /\ visited # <<>>
    /\ \E v \in DOMAIN g.vertices : g.vertices[v].Color = Gray /\ v \notin Range(visited)

\* C4: on an undirected graph (its weights are not negative) in which dest
\* is reachable from source, WalkShortestPath with a walkFunc that returns
\* nil every time returns nil after calling it on a sequence that starts at
\* source, ends at dest and joins each vertex to the next by an edge; the
\* DistanceFromSource of each is the weight of the sequence up to it, and
\* that of dest is the least total weight of a path from source to dest.
C4_ShortestPathVisited ==
    (/\ Completed("WalkShortestPath")
     /\ Kind(g) = KindUndirected
     /\ VertexExists(g, source)
     /\ VertexExists(g, dest)
     /\ dest \in ReachableFrom(g, source))
    => (/\ ret = NoError
        /\ visited # <<>>
        /\ visited[1] = source
        /\ visited[Len(visited)] = dest
        /\ g.vertices[source].DistanceFromSource = 0
        /\ \A i \in 1..(Len(visited) - 1) :
              \E e \in EdgesFromTo(g, visited[i], visited[i + 1]) :
                 g.vertices[visited[i + 1]].DistanceFromSource =
                     g.vertices[visited[i]].DistanceFromSource + e.Weight
        /\ g.vertices[dest].DistanceFromSource = MinWeight(g, source, dest))

\* The path visited has two edges and is lighter than the edge that joins
\* source to dest.
C4_Witness ==
    /\ Completed("WalkShortestPath")
    /\ ret = NoError
    /\ Len(visited) = 3
    /\ \E e \in EdgesFromTo(g, source, dest) :
          g.vertices[dest].DistanceFromSource < e.Weight
    /\ g.vertices[dest].DistanceFromSource > 0

\* C5: when source and dest are vertices and dest is not reachable from
\* source, WalkShortestPath returns the error "No path exists" and does not
\* call walkFunc.
C5_UnreachableIsNoPath ==
    (/\ pc = "done"
     /\ op = "WalkShortestPath"
     /\ VertexExists(g, source)
     /\ VertexExists(g, dest)
     /\ dest \notin ReachableFrom(g, source))
    => (ret = ErrNoPath /\ visited = <<>>)

C7_TopoOrderVisited ==
    (Completed("WalkTopoOrder") /\ Kind(g) = KindDirected /\ ret = NoError)
    => (/\ Len(visited) = Cardinality(DOMAIN g.vertices)
        /\ Range(visited) = DOMAIN g.vertices
        /\ \A i \in 1..Len(g.edges) :
              PosIn(visited, g.edges[i].To) < PosIn(visited, g.edges[i].From)
        /\ (g.edges = TestChain.edges /\ DOMAIN g.vertices = DOMAIN TestChain.vertices)
              => visited = <<4, 3, 2, 1>>)

\* The walk of the chain 1 -> 2 -> 3 -> 4 returned nil.
C7_Witness ==
    /\ Completed("WalkTopoOrder")
    /\ ret = NoError
    /\ g.edges = TestChain.edges
    /\ DOMAIN g.vertices = DOMAIN TestChain.vertices
    /\ visited = <<4, 3, 2, 1>>

\* C8: on a directed graph with a directed cycle (a self-loop is one),
\* WalkTopoOrder with a walkFunc that returns nil every time returns
\* ErrCycleDetected, whatever the order the vertices are taken in.
C8_CycleDetected ==
    (Completed("WalkTopoOrder") /\ Kind(g) = KindDirected /\ HasCycle(g))
    => ret = ErrCycleDetected

\* ErrCycleDetected on a graph with a cycle of more than one edge, after
\* walkFunc was called on a vertex outside the cycle.
C8_Witness ==
    /\ Completed("WalkTopoOrder")
    /\ ret = ErrCycleDetected
    /\ HasCycle(g)
    /\ \A i \in 1..Len(g.edges) : g.edges[i].From # g.edges[i].To
    /\ visited # <<>>

\* C9: WalkTopoOrder returns ErrCycleDetected only on a graph that has a
\* directed cycle.
C9_CycleOnlyWhenCyclic ==
    (pc = "done" /\ op = "WalkTopoOrder" /\ ret = ErrCycleDetected) => HasCycle(g)

\* C10: WalkTopoOrder on an undirected graph returns ErrIsNotDirectedGraph
\* at once, without a call of walkFunc, and leaves the Color,
\* DistanceFromSource and Parent of every vertex as they were.
C10_UndirectedRefused ==
    [][(IsCall /\ op' = "WalkTopoOrder" /\ Kind(g) = KindUndirected)
       => (/\ pc' = "done"
           /\ ret' = ErrIsNotDirectedGraph
           /\ visited' = <<>>
           /\ Attrs(g') = Attrs(g))]_vars

\* WalkTopoOrder has refused an undirected graph whose vertices an earlier
\* walk had painted Black.
C10_Witness ==
    /\ pc = "done"
    /\ op = "WalkTopoOrder"
    /\ Kind(g) = KindUndirected
    /\ ret = ErrIsNotDirectedGraph
    /\ visited = <<>>
    /\ \E v \in DOMAIN g.vertices : g.vertices[v].Color = Black

\* The vertices at most n steps along the adjacency lists away from a vertex
\* of S.
RECURSIVE AdjacentWithin(_, _, _)
AdjacentWithin(gr, S, n) ==
    IF n = 0
    THEN S
    ELSE LET W == AdjacentWithin(gr, S, n - 1)
         IN W \cup UNION {Range(GetNeighbours(gr, v)) : v \in W}

AdjacentReachable(gr, s) == AdjacentWithin(gr, {s}, Cardinality(DOMAIN gr.vertices))

\* C11: WalkUnreachableVertices(source) with a walkFunc that returns nil
\* every time calls it once on every vertex that is not reachable from
\* source along the adjacency lists, and on no other vertex.
C11_UnreachableVisited ==
    (Completed("WalkUnreachableVertices") /\ VertexExists(g, source))
    => (/\ ret = NoError
        /\ Range(visited) = DOMAIN g.vertices \ AdjacentReachable(g, source)
        /\ Len(visited) = Cardinality(Range(visited)))

\* A vertex was visited while source and a vertex reachable from it were not.
C11_Witness ==
    /\ Completed("WalkUnreachableVertices")
    /\ VertexExists(g, source)
    /\ visited # <<>>
    /\ AdjacentReachable(g, source) \ {source} # {}

(***************************************************************************)
(* The store: DeleteVertex, DeleteEdge, AddEdge and AddWeightedEdge.       *)
(***************************************************************************)
\* The last call was o and it returned.
Returned(o) == pc = "done" /\ op = o

\* v is an endpoint of e.
Touches(e, v) == e.From = v \/ e.To = v

\* C12: after DeleteVertex(v) has returned, on a graph of either kind, v is
\* no vertex, no edge of the edge list has v as an endpoint, and v is in no
\* adjacency list.
C12_DeleteVertexLeavesNothing ==
    Returned("DeleteVertex")
    => (/\ ~VertexExists(g, source)
        /\ \A e \in Range(g.edges) : ~Touches(e, source)
        /\ \A k \in DOMAIN g.adjacencyLists : source \notin Range(g.adjacencyLists[k]))

\* The number of edges of the edge list that leave k, and that enter k.
EdgesOut(gr, k) == Cardinality({i \in 1..Len(gr.edges) : gr.edges[i].From = k})
EdgesIn(gr, k) == Cardinality({i \in 1..Len(gr.edges) : gr.edges[i].To = k})

\* Every degree counter tells the edges of its vertex: in an undirected graph
\* In and Out are both the number of edge ends at the vertex, in a directed
\* graph Out is the number of edges that leave it and In the number that enter.
DegreesMatch(gr) ==
    \A k \in DOMAIN gr.vertices :
        IF gr.kind = KindDirected
        THEN /\ gr.vertices[k].Out = EdgesOut(gr, k)
             /\ gr.vertices[k].In = EdgesIn(gr, k)
        ELSE /\ gr.vertices[k].Out = EdgesOut(gr, k) + EdgesIn(gr, k)
             /\ gr.vertices[k].In = EdgesOut(gr, k) + EdgesIn(gr, k)

\* C13: DeleteVertex(v) takes back the degree updates of the edges it
\* deletes: on a graph whose degree counters tell its edges, they still do
\* after the call (and so none is negative).
C13_DeleteVertexReversesDegrees ==
    [][(pc' = "done" /\ op' = "DeleteVertex" /\ DegreesMatch(g)) => DegreesMatch(g')]_vars

\* C14: a call of AddEdge or AddWeightedEdge that creates an edge from u to v
\* adds 1 to In and Out of both u and v on an undirected graph, and on a
\* directed graph adds 1 to Out of u and to In of v and changes no other
\* degree counter (u and v being two vertices).
DegreeOf(gr, k) == IF VertexExists(gr, k) THEN <<gr.vertices[k].In, gr.vertices[k].Out>> ELSE <<0, 0>>

C14_InsertionDegrees ==
    [][(op' \in {"AddEdge", "AddWeightedEdge"} /\ Len(g'.edges) = Len(g.edges) + 1 /\ source' # dest')
       => \A k \in DOMAIN g'.vertices :
            LET d == DegreeOf(g, k)
                dn == DegreeOf(g', k)
            IN IF g.kind = KindDirected
               THEN /\ dn[1] = d[1] + (IF k = dest' THEN 1 ELSE 0)
                    /\ dn[2] = d[2] + (IF k = source' THEN 1 ELSE 0)
               ELSE /\ dn[1] = d[1] + (IF k \in {source', dest'} THEN 1 ELSE 0)
                    /\ dn[2] = d[2] + (IF k \in {source', dest'} THEN 1 ELSE 0)]_vars

\* C15: AddEdge(u, v) on a graph that holds that edge (in that direction on a
\* directed graph, in either on an undirected one) leaves the graph as it
\* is: the edge list, every adjacency list, every degree counter, and the
\* weight and the attributes of the edge.
C15_AddEdgeAgainChangesNothing ==
    [][(op' = "AddEdge" /\ EdgeExists(g, source', dest')) => g' = g]_vars

\* AddEdge was called on an edge that has a weight, which no edge just
\* created has.
C15_Witness ==
    /\ op = "AddEdge"
    /\ EdgeExists(g, source, dest)
    /\ g.edges[GetEdge(g, source, dest)].Weight # 0

\* C16: AddWeightedEdge(u, v, w2) on a graph that holds the edge (u, v)
\* creates no second edge and leaves the weight of the edge as it was.
C16_WeightNotReset ==
    [][(op' = "AddWeightedEdge" /\ EdgeExists(g, source', dest'))
       => /\ Len(g'.edges) = Len(g.edges)
          /\ g'.edges[GetEdge(g, source', dest')].Weight
                = g.edges[GetEdge(g, source', dest')].Weight]_vars

\* C17: after any calls of AddVertex, AddEdge, AddWeightedEdge, DeleteEdge
\* and DeleteVertex that returned, on a graph of either kind, both endpoints
\* of every edge of the edge list are keys of the vertex map.
C17_EndpointsAreVertices ==
    pc # "panic"
    => \A e \in Range(g.edges) : VertexExists(g, e.From) /\ VertexExists(g, e.To)

(***************************************************************************)
(* One traversal after another.                                            *)
(***************************************************************************)
\* Color, distance and parent of a vertex that no traversal has touched.
Fresh == <<White, 0, Nil>>

\* Color, distance and parent of vertex v when entry point o, called with
\* source s, has reset the vertices and set up its source.
Seeded(o, v, s) ==
    IF o \in {"WalkDijkstra", "WalkShortestPath"}
    THEN <<White, IF v = s THEN 0 ELSE Inf, Nil>>
    ELSE IF o # "WalkTopoOrder" /\ v = s
         THEN <<Gray, 0, Nil>>
         ELSE Fresh

\* The walks that start from a source and follow what is reachable from it.
SourceWalks == {"WalkBFS", "WalkPreOrderDFS", "WalkPostOrderDFS"}

IsClone == h = NoGraph /\ h' # NoGraph

\* Graph c has the kind of graph o, its vertex keys with their color,
\* distance, degree and attributes, its edges with their weights and
\* attributes, and its adjacency lists in their order.
SameButParents(o, c) ==
    /\ c.kind = o.kind
    /\ DOMAIN c.vertices = DOMAIN o.vertices
    /\ \A k \in DOMAIN o.vertices :
          [c.vertices[k] EXCEPT !.Parent = Nil] = [o.vertices[k] EXCEPT !.Parent = Nil]
    /\ c.edges = o.edges
    /\ c.adjacencyLists = o.adjacencyLists

EdgesBetween(gr, u, v) ==
    {i \in 1..Len(gr.edges) :
        \/ gr.edges[i].From = u /\ gr.edges[i].To = v
        \/ gr.edges[i].From = v /\ gr.edges[i].To = u}

\* C21: on an undirected graph, in every state and for all keys u and v,
\* EdgeExists(u, v) = EdgeExists(v, u), GetEdge(u, v) and GetEdge(v, u) yield
\* the same edge, the only one between u and v; and DeleteEdge(v, u) takes
\* the edge added as (u, v) out of the edge list.
C21_UndirectedSymmetry ==
    /\ [](g.kind = KindUndirected
          => \A u, v \in 1..StoreKeys :
                /\ EdgeExists(g, u, v) = EdgeExists(g, v, u)
                /\ GetEdge(g, u, v) = GetEdge(g, v, u)
                /\ Cardinality(EdgesBetween(g, u, v)) <= 1)
    /\ [][(g.kind = KindUndirected /\ op' = "DeleteEdge")
          => EdgesBetween(g', source', dest') = {}]_vars

\* DeleteEdge(u, v) has returned on an undirected graph after taking out an
\* edge (the adjacency lists of u and v are there, and v is not in that of
\* u), and the graph holds another edge, which GetEdge finds from its To to
\* its From.
C21_Witness ==
    /\ g.kind = KindUndirected
    /\ Returned("DeleteEdge")
    /\ source # dest
    /\ source \in DOMAIN g.adjacencyLists
    /\ dest \in DOMAIN g.adjacencyLists
    /\ dest \notin Range(g.adjacencyLists[source])
    /\ \E i \in 1..Len(g.edges) :
          /\ g.edges[i].From # g.edges[i].To
          /\ GetEdge(g, g.edges[i].To, g.edges[i].From) = i

\* C22: DeleteVertex of a key that is no vertex, and DeleteEdge of a pair
\* between which the graph has no edge (from the first to the second on a
\* directed graph), return without a panic and leave the graph as it is, on
\* graphs of either kind.
C22_AbsentDeleteChangesNothing ==
    [][(\/ op' = "DeleteVertex" /\ ~VertexExists(g, source')
        \/ op' = "DeleteEdge" /\ ~EdgeExists(g, source', dest'))
       => (g' = g /\ pc' = "done")]_vars

\* DeleteEdge(u, v) has returned on a graph that holds an edge and never
\* held one from u (the adjacency list of u was never made).
C22_Witness ==
    /\ Returned("DeleteEdge")
    /\ g.edges # <<>>
    /\ VertexExists(g, source)
    /\ VertexExists(g, dest)
    /\ source \notin DOMAIN g.adjacencyLists

\* C23: AddVertex(k) on a graph where k is a vertex changes nothing, the
\* vertex under k (the one the call returns) included, and the vertex stored
\* under a key is always the one vertex of that value.
C23_AddVertexAgainChangesNothing ==
    /\ [](\A k \in DOMAIN g.vertices : g.vertices[k].Value = k)
    /\ [][(op' = "AddVertex" /\ VertexExists(g, source'))
          => (g' = g /\ GetVertex(g', source') = GetVertex(g, source'))]_vars

\* AddVertex(k) was the last call, on a vertex that edges had touched before.
C23_Witness ==
    /\ pc = "idle"
    /\ op = "AddVertex"
    /\ VertexExists(g, source)
    /\ DegreeOf(g, source) # <<0, 0>>

(***************************************************************************)
(* The walks: what is left Gray, the order of the visits, the colours.     *)
(***************************************************************************)
\* v lies on a directed cycle: v is reachable from one of its successors.
OnCycle(gr, v) == \E u \in Successors(gr, v) : v \in ReachableFrom(gr, u)

\* C24: when WalkTopoOrder returns ErrCycleDetected, every vertex left Gray
\* lies on a directed cycle of the graph.
C24_GrayOnCycle ==
    (pc = "done" /\ op = "WalkTopoOrder" /\ ret = ErrCycleDetected)
        => \A v \in DOMAIN g.vertices : g.vertices[v].Color = Gray => OnCycle(g, v)

\* C25: on the graph of the README, WalkTopoOrder with a walkFunc that always
\* returns nil returns nil after visiting 5, 4, 3, 2, 1 in that order,
\* whatever order the range over the vertex map takes.
C25_ReadmeOrder ==
    Completed("WalkTopoOrder") => (ret = NoError /\ visited = <<5, 4, 3, 2, 1>>)

\* The vertices on the Parent chain of v, v itself included, at most n links up.
RECURSIVE ParentChain(_, _, _)
ParentChain(gr, v, n) ==
    IF n = 0 \/ gr.vertices[v].Parent = Nil \/ ~VertexExists(gr, gr.vertices[v].Parent)
    THEN {v}
    ELSE {v} \cup ParentChain(gr, gr.vertices[v].Parent, n - 1)

Ancestors(gr, v) == ParentChain(gr, v, Cardinality(DOMAIN gr.vertices))

\* C26: after a complete WalkPreOrderDFS on an undirected graph the Parent
\* links form a depth-first tree: every edge between two reached vertices
\* joins a vertex with one of its ancestors in the Parent tree.
C26_ParentsFormDFSTree ==
    (Completed("WalkPreOrderDFS") /\ ret = NoError /\ Kind(g) = KindUndirected)
        => \A i \in 1..Len(g.edges) :
              LET u == g.edges[i].From
                  v == g.edges[i].To
              IN (g.vertices[u].Color = Black /\ g.vertices[v].Color = Black)
                    => (u \in Ancestors(g, v) \/ v \in Ancestors(g, u))

\* C27: WalkPostOrderDFS calls walkFunc on a vertex only when none of its
\* neighbours is White and only after it has called walkFunc on every vertex
\* whose Parent chain leads to it; the source is the last vertex visited.
C27_PostOrder ==
    /\ (pc = "visit" /\ op = "WalkPostOrderDFS")
          => /\ \A u \in Range(GetNeighbours(g, cur)) : g.vertices[u].Color # White
             /\ \A u \in DOMAIN g.vertices :
                   (u # cur /\ cur \in Ancestors(g, u))
                      => u \in Range(SubSeq(visited, 1, Len(visited) - 1))
             /\ cur = source => queue = <<>>
    /\ (Completed("WalkPostOrderDFS") /\ ret = NoError)
          => (visited # <<>> /\ visited[Len(visited)] = source)

\* A post-order walk has completed over a Parent chain of three vertices.
C27_Witness ==
    /\ Completed("WalkPostOrderDFS")
    /\ ret = NoError
    /\ Len(visited) = 3
    /\ \E u \in DOMAIN g.vertices : Cardinality(Ancestors(g, u)) = 3

\* C28: WalkBFS calls walkFunc on the vertices in non-decreasing order of
\* DistanceFromSource, and on the vertices discovered from one vertex (those
\* with the same Parent) in the order of that vertex's adjacency list.
C28_BFSOrder ==
    op = "WalkBFS"
        => \A i, j \in 1..Len(visited) :
              i < j =>
                 LET a == g.vertices[visited[i]]
                     b == g.vertices[visited[j]]
                 IN /\ a.DistanceFromSource <= b.DistanceFromSource
                    /\ (a.Parent # Nil /\ a.Parent = b.Parent)
                          => PosIn(GetNeighbours(g, a.Parent), a.Value)
                                < PosIn(GetNeighbours(g, b.Parent), b.Value)

\* A breadth-first walk has completed in which the source discovered two
\* vertices.
C28_Witness ==
    /\ Completed("WalkBFS")
    /\ ret = NoError
    /\ \E i, j \in 1..Len(visited) :
          /\ i < j
          /\ g.vertices[visited[i]].Parent # Nil
          /\ g.vertices[visited[i]].Parent = g.vertices[visited[j]].Parent
          /\ g.vertices[visited[i]].DistanceFromSource = 1
          /\ visited[1] = source

\* The walks from a source that visit what is reachable from it.
ReachWalks == {"WalkBFS", "WalkPreOrderDFS", "WalkPostOrderDFS"}

ColourWalks == {"WalkBFS", "WalkPreOrderDFS", "WalkPostOrderDFS", "WalkTopoOrder"}

\* The moves of a colour: none, White to Gray, Gray to Black.
ColourMoves == {<<White, White>>, <<Gray, Gray>>, <<Black, Black>>, <<White, Gray>>, <<Gray, Black>>}

\* C30: in every step of a run of WalkBFS, WalkPreOrderDFS, WalkPostOrderDFS
\* or WalkTopoOrder after the call's reset, each vertex keeps its colour or
\* moves from White to Gray or from Gray to Black.
C30_ColoursMoveForward ==
    [][(op \in ColourWalks /\ pc \notin {"idle", "done"})
       => \A v \in DOMAIN g.vertices :
             /\ v \in DOMAIN g'.vertices
             /\ <<g.vertices[v].Color, g'.vertices[v].Color>> \in ColourMoves]_vars

\* A run of WalkTopoOrder is under way with a vertex of each colour.
C30_Witness ==
    /\ op = "WalkTopoOrder"
    /\ pc = "loop"
    /\ {g.vertices[v].Color : v \in DOMAIN g.vertices} = {White, Gray, Black}

(***************************************************************************)
(* The walks: the moment of the visit, the weighted walks, the links.      *)
(***************************************************************************)
\* The walks that call walkFunc on a vertex right after its neighbours were
\* discovered.
DiscoverThenVisit == {"WalkBFS", "WalkPreOrderDFS"}

\* Every vertex of sq but the last is Black.
EarlierBlack(gr, sq) == \A i \in 1..(Len(sq) - 1) : gr.vertices[sq[i]].Color = Black

\* C31: in WalkBFS and WalkPreOrderDFS, when walkFunc is called on v, v is
\* Gray and every neighbour of v is not White and, unless it is the source,
\* has its Parent and its DistanceFromSource (one more than its Parent's);
\* a vertex turns Black only when walkFunc has returned nil on it, so the
\* vertex walkFunc returned ErrStopWalking or an error on stays Gray, with
\* every vertex visited before it Black.
C31_VisitMoment ==
    /\ []((op \in DiscoverThenVisit /\ pc = "visit")
            => /\ g.vertices[cur].Color = Gray
               /\ visited[Len(visited)] = cur
               /\ EarlierBlack(g, visited)
               /\ \A u \in Range(GetNeighbours(g, cur)) :
                     /\ g.vertices[u].Color # White
                     /\ u # source =>
                           /\ g.vertices[u].Parent # Nil
                           /\ g.vertices[u].DistanceFromSource =
                                 g.vertices[g.vertices[u].Parent].DistanceFromSource + 1)
    /\ []((op \in DiscoverThenVisit /\ pc = "done" /\ walkErr # NoError)
            => /\ g.vertices[visited[Len(visited)]].Color = Gray
               /\ EarlierBlack(g, visited))
    /\ [][(op \in DiscoverThenVisit /\ pc \notin {"idle", "done"})
            => \A v \in DOMAIN g.vertices :
                  (g.vertices[v].Color # Black /\ g'.vertices[v].Color = Black)
                     => (pc = "visit" /\ v = cur /\ walkErr' = NoError)]_vars

\* WalkPreOrderDFS was stopped at its third vertex.
C31_Witness ==
    /\ pc = "done"
    /\ op = "WalkPreOrderDFS"
    /\ walkErr = ErrStopWalking
    /\ Len(visited) = 3
    /\ g.vertices[visited[3]].Color = Gray

\* The walks that relax edges.
WeightedWalks == {"WalkDijkstra", "WalkShortestPath"}

\* C32: WalkDijkstra and WalkShortestPath never return the error "No edge
\* exists": every pair they relax, taken from an adjacency list, is an edge.
C32_NeverNoEdge ==
    (pc = "done" /\ op \in WeightedWalks) => ret # ErrNoEdge

\* C33: WalkDijkstra with a walkFunc that always returns nil, on a graph with
\* non-negative weights, calls it exactly once on every vertex of the graph,
\* in non-decreasing order of DistanceFromSource; when a vertex is visited
\* its DistanceFromSource is already the least total weight of a path from
\* the source to it, and a vertex that cannot be reached has distance
\* +Inf and no Parent.
C33_DijkstraVisitsAll ==
    /\ (op = "WalkDijkstra" /\ pc = "visit")
          => g.vertices[cur].DistanceFromSource = MinWeight(g, source, cur)
    /\ (Completed("WalkDijkstra") /\ VertexExists(g, source))
          => /\ ret = NoError
             /\ Range(visited) = DOMAIN g.vertices
             /\ Len(visited) = Cardinality(DOMAIN g.vertices)
             /\ \A i, j \in 1..Len(visited) :
                   i < j => ~DistLess(g.vertices[visited[j]].DistanceFromSource,
                                      g.vertices[visited[i]].DistanceFromSource)
             /\ \A v \in DOMAIN g.vertices :
                   /\ g.vertices[v].DistanceFromSource = MinWeight(g, source, v)
                   /\ v \notin ReachableFrom(g, source)
                         => (g.vertices[v].DistanceFromSource = Inf /\ g.vertices[v].Parent = Nil)

\* The last call, of WalkDijkstra or WalkShortestPath, got past its checks to
\* the source check of initializeSourceVertex, and passed it.
PassedSourceCheck ==
    /\ op \in WeightedWalks
    /\ pc # "idle"
    /\ VertexExists(g, source)
    /\ op = "WalkShortestPath" => VertexExists(g, dest)

Count(sq, x) == Cardinality({i \in 1..Len(sq) : sq[i] = x})

\* C35: after any sequence of AddVertex, AddEdge, AddWeightedEdge, DeleteEdge
\* and DeleteVertex, on a graph of either kind, u is in the adjacency list
\* of v exactly when EdgeExists(v, u), it is there at most once, and every
\* key of an adjacency list is a vertex.
C35_AdjacencyAgrees ==
    /\ \A v \in DOMAIN g.adjacencyLists :
          \A u \in Range(g.adjacencyLists[v]) :
             /\ EdgeExists(g, v, u)
             /\ Count(g.adjacencyLists[v], u) = 1
             /\ VertexExists(g, u)
    /\ \A v, u \in 1..StoreKeys :
          EdgeExists(g, v, u)
             => (v \in DOMAIN g.adjacencyLists /\ u \in Range(g.adjacencyLists[v]))

\* C36: in every state reached by walks and mutations the Parent of each
\* vertex is nil or a vertex of the graph: DeleteVertex and DeleteEdge after
\* a walk leave no vertex whose Parent was removed from the graph.
C36_ParentsInGraph ==
    \A k \in DOMAIN g.vertices :
        g.vertices[k].Parent = Nil \/ VertexExists(g, g.vertices[k].Parent)

\* C37: at every step of a run of WalkBFS, WalkPreOrderDFS or
\* WalkPostOrderDFS, and after it, the source has no Parent and distance 0,
\* every other vertex that is not White has a Parent whose adjacency list
\* holds it and whose DistanceFromSource is one less than its own, and the
\* Parent links lead from it to the source.
C37_ParentLinks ==
    (op \in SourceWalks /\ pc # "idle" /\ VertexExists(g, source))
        => /\ g.vertices[source].Parent = Nil
           /\ g.vertices[source].DistanceFromSource = 0
           /\ g.vertices[source].Color # White
           /\ \A v \in DOMAIN g.vertices \ {source} :
                 g.vertices[v].Color # White
                    => LET p == g.vertices[v].Parent
                       IN /\ p # Nil
                          /\ VertexExists(g, p)
                          /\ g.vertices[p].Color # White
                          /\ v \in Range(GetNeighbours(g, p))
                          /\ g.vertices[v].DistanceFromSource = g.vertices[p].DistanceFromSource + 1
                          /\ source \in Ancestors(g, v)

\* A pre-order walk was stopped with a vertex two Parent links from the
\* source.
C37_Witness ==
    /\ pc = "done"
    /\ op = "WalkPreOrderDFS"
    /\ walkErr = ErrStopWalking
    /\ \E v \in DOMAIN g.vertices :
          /\ g.vertices[v].DistanceFromSource = 2
          /\ Cardinality(Ancestors(g, v)) = 3

\* C38: on a graph of either kind with no edge between u and v, u # v,
\* AddEdge(u, v) followed by DeleteEdge(u, v) returns and leaves the edge
\* list, the neighbours of every key and the degrees of every vertex as they
\* were before the AddEdge (h is the Clone taken then); a vertex that was not
\* there before is u or v, with both degrees 0.
C38_DeleteUndoesAdd ==
    (/\ op = "DeleteEdge"
     /\ source # dest
     /\ EdgesBetween(h, source, dest) = {})
    => /\ pc = "done"
       /\ g.edges = h.edges
       /\ \A k \in 1..UndoKeys : GetNeighbours(g, k) = GetNeighbours(h, k)
       /\ \A k \in DOMAIN h.vertices : VertexExists(g, k) /\ DegreeOf(g, k) = DegreeOf(h, k)
       /\ \A k \in DOMAIN g.vertices \ DOMAIN h.vertices :
             k \in {source, dest} /\ DegreeOf(g, k) = <<0, 0>>

\* The edge was added to a graph that had edges at both its endpoints, one
\* of them a new vertex, and then deleted.
C38_Witness ==
    /\ op = "DeleteEdge"
    /\ pc = "done"
    /\ source # dest
    /\ EdgesBetween(h, source, dest) = {}
    /\ GetNeighbours(h, source) # <<>>
    /\ dest \notin DOMAIN h.vertices
    /\ dest \in DOMAIN g.vertices

\* C39: on every graph built with AddVertex, AddEdge and AddWeightedEdge,
\* self-loops and cycles included, with a walkFunc that always returns,
\* every call of an entry point returns.
C39_EveryCallReturns ==
    (pc \notin {"idle", "done"}) ~> (pc = "done")

\* WalkShortestPath has returned nil on a directed graph with a cycle, after
\* a visit.
C39_Witness ==
    /\ Completed("WalkShortestPath")
    /\ ret = NoError
    /\ Kind(g) = KindDirected
    /\ HasCycle(g)
    /\ Len(visited) = 2

\* C40: when WalkTopoOrder returns ErrCycleDetected, walkFunc was not called
\* on any vertex during the call.
C40_CycleBeforeAnyVisit ==
    (pc = "done" /\ op = "WalkTopoOrder" /\ ret = ErrCycleDetected) => visited = <<>>

====
